---------------------------- MODULE Spec2Model ----------------------------
(***************************************************************************)
(* Covered-call backtest engine (Covered_Calls/services):                  *)
(*   covered_call_service.py  CoveredCallEngine, the day-by-day simulator  *)
(*   greeks_calculator.py     GreeksCalculator, Black-Scholes price/delta  *)
(*                                                                         *)
(* Units.  Money and prices are integers in paise (1/100 rupee); the       *)
(* source uses binary floats.  Percentages computed by the engine          *)
(* (profit_pct, the trailing-stop high-water mark) are in basis points     *)
(* (1/100 of a percent), rounded down.  Dates are day numbers counted      *)
(* from 2023-12-31 (day 1 = Monday 2024-01-01), so a difference of two     *)
(* dates is timedelta.days.                                                *)
(***************************************************************************)
EXTENDS Integers, Sequences, FiniteSets, TLC

(***************************************************************************)
(* Model bound: the number of trading dates a run processes.               *)
(***************************************************************************)
MaxDays == 5

Symbols == {"A", "B"}

\* Closing prices (paise) the price tables draw from.
PriceSet == {9500, 10000, 10500}

\* Calendar-day gaps between two consecutive rows of the price tables.
Gaps == {1, 7}

\* First trading dates of a run (2024-01-03 or 2024-01-04).
StartDates == {3, 4}

\* Last date of the calendar window a run may reach (2024-03-31).
LastDate == 91

(***************************************************************************)
(* Calendar: datetime.day, datetime.month, datetime.weekday() and          *)
(* calendar.monthrange for January..April 2024.                            *)
(***************************************************************************)
MonthFirstDay == <<1, 32, 61, 92, 122>>

Month(d) == CHOOSE m \in 1..4 : MonthFirstDay[m] <= d /\ d < MonthFirstDay[m + 1]

DayOfMonth(d) == d - MonthFirstDay[Month(d)] + 1

LastDayOfMonth(m) == MonthFirstDay[m + 1] - 1

\* datetime.weekday(): Monday = 0 ... Sunday = 6
Weekday(d) == (d - 1) % 7

RECURSIVE BackToThursday(_)
BackToThursday(d) == IF Weekday(d) = 3 THEN d ELSE BackToThursday(d - 1)

\* IsEntryDay without the test of the day of the month
IsEntryDay_Always(current_date) == TRUE

\* _is_entry_day
IsEntryDay(current_date) == DayOfMonth(current_date) <= 5

\* _get_monthly_expiry (the December wrap-around lies outside the calendar window)
GetMonthlyExpiry(current_date) ==
    LET month == IF DayOfMonth(current_date) > 20
                 THEN Month(current_date) + 1
                 ELSE Month(current_date)
    IN  BackToThursday(LastDayOfMonth(month))

(***************************************************************************)
(* Strike ladder.                                                          *)
(***************************************************************************)
\* Python round(): round half to even, of the rational num/den (den > 0)
RoundHalfEven(num, den) ==
    LET q == num \div den
        r == num % den
    IN  IF 2 * r < den THEN q
        ELSE IF 2 * r > den THEN q + 1
        ELSE IF q % 2 = 0 THEN q ELSE q + 1

\* _get_strike_interval
GetStrikeInterval(stock_price) ==
    IF stock_price < 10000 THEN 250
    ELSE IF stock_price < 50000 THEN 500
    ELSE IF stock_price < 100000 THEN 1000
    ELSE IF stock_price < 250000 THEN 2500
    ELSE IF stock_price < 500000 THEN 5000
    ELSE 10000

\* _generate_strikes: start = round(0.9 S / i) * i, end = round(1.2 S / i) * i
GenerateStrikes(stock_price, interval) ==
    LET start == RoundHalfEven(9 * stock_price, 10 * interval) * interval
        end   == RoundHalfEven(12 * stock_price, 10 * interval) * interval
        n     == IF end < start THEN 0 ELSE (end - start) \div interval + 1
    IN  [i \in 1..n |-> start + (i - 1) * interval]

SeqToSet(s) == {s[i] : i \in 1..Len(s)}

Abs(x) == IF x < 0 THEN -x ELSE x

\* max(strikes)
SeqMax(seq) == CHOOSE x \in SeqToSet(seq) : \A y \in SeqToSet(seq) : y <= x

\* min(valid_strikes)
SeqMin(seq) == CHOOSE x \in SeqToSet(seq) : \A y \in SeqToSet(seq) : x <= y

(***************************************************************************)
(* Black-Scholes call price and delta (GreeksCalculator), risk_free_rate   *)
(* 0.07, tabulated from the closed form at volatility 0.20 (20 percent)    *)
(*   d1 = (ln(S/K) + (r + v^2/2) T) / (v sqrt(T)),  d2 = d1 - v sqrt(T)    *)
(*   price = S N(d1) - K exp(-rT) N(d2),            delta = N(d1)          *)
(* for S in PriceSet, K in 8500, 8750 .. 12500 and T = dte/365 with        *)
(* dte in 1..30.  Table[spot index][strike index][dte]; prices are rounded *)
(* to paise, deltas to 1/10000.                                            *)
(***************************************************************************)
OptionPriceTable ==
<<
  <<
    <<1002,1003,1005,1007,1008,1010,1011,1013,1015,1016,1018,1020,1021,1023,1025,1026,1028,1030,1032,1033,1035,1037,1039,1041,1043,1045,1047,1049,1051,1053>>,
    <<752,753,755,757,758,760,762,764,765,767,769,771,773,775,778,780,782,784,787,789,791,794,796,799,801,804,806,809,812,814>>,
    <<502,503,505,507,509,512,514,517,520,523,526,529,533,536,539,543,546,550,553,557,560,564,568,571,575,578,582,585,589,592>>,
    <<252,255,260,266,272,278,284,289,295,301,307,312,318,323,328,333,338,343,348,353,358,363,367,372,377,381,386,390,394,399>>,
    <<41,58,71,83,93,103,111,120,127,135,142,148,155,161,167,173,179,185,190,196,201,206,211,216,221,226,231,236,240,245>>,
    <<0,2,6,11,16,22,27,33,38,43,49,54,59,64,69,74,79,83,88,93,97,102,106,111,115,119,124,128,132,136>>,
    <<0,0,0,1,1,2,4,6,7,10,12,14,17,20,22,25,28,31,34,37,40,43,46,49,52,55,58,61,65,68>>,
    <<0,0,0,0,0,0,0,1,1,1,2,3,4,5,6,7,8,9,11,12,14,15,17,19,21,22,24,26,28,30>>,
    <<0,0,0,0,0,0,0,0,0,0,0,0,1,1,1,1,2,2,3,3,4,5,5,6,7,8,9,10,11,12>>,
    <<0,0,0,0,0,0,0,0,0,0,0,0,0,0,0,0,0,0,1,1,1,1,1,2,2,2,3,3,4,4>>,
    <<0,0,0,0,0,0,0,0,0,0,0,0,0,0,0,0,0,0,0,0,0,0,0,0,1,1,1,1,1,1>>,
    <<0,0,0,0,0,0,0,0,0,0,0,0,0,0,0,0,0,0,0,0,0,0,0,0,0,0,0,0,0,0>>,
    <<0,0,0,0,0,0,0,0,0,0,0,0,0,0,0,0,0,0,0,0,0,0,0,0,0,0,0,0,0,0>>,
    <<0,0,0,0,0,0,0,0,0,0,0,0,0,0,0,0,0,0,0,0,0,0,0,0,0,0,0,0,0,0>>,
    <<0,0,0,0,0,0,0,0,0,0,0,0,0,0,0,0,0,0,0,0,0,0,0,0,0,0,0,0,0,0>>,
    <<0,0,0,0,0,0,0,0,0,0,0,0,0,0,0,0,0,0,0,0,0,0,0,0,0,0,0,0,0,0>>,
    <<0,0,0,0,0,0,0,0,0,0,0,0,0,0,0,0,0,0,0,0,0,0,0,0,0,0,0,0,0,0>>
  >>,
  <<
    <<1502,1503,1505,1507,1508,1510,1511,1513,1515,1516,1518,1520,1521,1523,1524,1526,1528,1529,1531,1533,1534,1536,1537,1539,1541,1542,1544,1546,1547,1549>>,
    <<1252,1253,1255,1257,1258,1260,1262,1263,1265,1267,1268,1270,1272,1273,1275,1277,1279,1280,1282,1284,1285,1287,1289,1291,1292,1294,1296,1298,1300,1302>>,
    <<1002,1003,1005,1007,1009,1010,1012,1014,1016,1017,1019,1021,1023,1024,1026,1028,1030,1032,1034,1036,1038,1040,1042,1044,1046,1048,1050,1053,1055,1057>>,
    <<752,754,755,757,759,761,763,764,766,769,771,773,775,778,780,782,785,787,790,793,795,798,801,804,806,809,812,815,818,821>>,
    <<502,504,506,508,510,513,516,519,522,526,529,533,536,540,544,548,552,555,559,563,567,571,575,579,582,586,590,594,598,601>>,
    <<252,256,262,268,275,281,288,294,300,306,312,318,324,330,336,341,347,352,357,362,367,372,377,382,387,392,397,401,406,410>>,
    <<43,61,75,87,98,108,117,126,134,142,149,156,163,170,176,183,189,195,200,206,212,217,223,228,233,238,243,248,253,258>>,
    <<0,3,8,13,19,25,31,37,43,49,55,60,66,71,76,82,87,92,97,102,107,111,116,121,125,130,135,139,143,148>>,
    <<0,0,0,1,2,3,5,7,9,12,15,18,21,24,27,30,33,36,40,43,46,50,53,56,60,63,67,70,73,77>>,
    <<0,0,0,0,0,0,0,1,1,2,3,4,5,6,7,9,10,12,14,15,17,19,21,23,25,27,29,32,34,36>>,
    <<0,0,0,0,0,0,0,0,0,0,0,1,1,1,2,2,3,3,4,5,6,6,7,8,9,10,12,13,14,15>>,
    <<0,0,0,0,0,0,0,0,0,0,0,0,0,0,0,0,1,1,1,1,2,2,2,3,3,4,4,5,5,6>>,
    <<0,0,0,0,0,0,0,0,0,0,0,0,0,0,0,0,0,0,0,0,0,0,1,1,1,1,1,1,2,2>>,
    <<0,0,0,0,0,0,0,0,0,0,0,0,0,0,0,0,0,0,0,0,0,0,0,0,0,0,0,0,1,1>>,
    <<0,0,0,0,0,0,0,0,0,0,0,0,0,0,0,0,0,0,0,0,0,0,0,0,0,0,0,0,0,0>>,
    <<0,0,0,0,0,0,0,0,0,0,0,0,0,0,0,0,0,0,0,0,0,0,0,0,0,0,0,0,0,0>>,
    <<0,0,0,0,0,0,0,0,0,0,0,0,0,0,0,0,0,0,0,0,0,0,0,0,0,0,0,0,0,0>>
  >>,
  <<
    <<2002,2003,2005,2007,2008,2010,2011,2013,2015,2016,2018,2020,2021,2023,2024,2026,2028,2029,2031,2033,2034,2036,2037,2039,2041,2042,2044,2046,2047,2049>>,
    <<1752,1753,1755,1757,1758,1760,1762,1763,1765,1767,1768,1770,1772,1773,1775,1777,1778,1780,1782,1784,1785,1787,1789,1790,1792,1794,1795,1797,1799,1800>>,
    <<1502,1503,1505,1507,1509,1510,1512,1514,1516,1517,1519,1521,1522,1524,1526,1528,1529,1531,1533,1534,1536,1538,1540,1541,1543,1545,1547,1549,1550,1552>>,
    <<1252,1254,1255,1257,1259,1261,1262,1264,1266,1268,1270,1271,1273,1275,1277,1278,1280,1282,1284,1286,1288,1290,1291,1293,1295,1297,1299,1301,1303,1305>>,
    <<1002,1004,1005,1007,1009,1011,1013,1015,1016,1018,1020,1022,1024,1026,1028,1030,1032,1034,1036,1039,1041,1043,1045,1048,1050,1052,1055,1057,1059,1062>>,
    <<752,754,756,757,759,761,763,765,768,770,772,775,777,780,783,785,788,791,794,797,800,803,806,809,812,815,818,821,824,827>>,
    <<502,504,506,508,511,514,517,521,525,528,532,536,540,545,549,553,557,561,565,570,574,578,582,586,590,595,599,603,607,611>>,
    <<252,257,263,270,277,285,292,299,305,312,318,325,331,337,343,349,355,360,366,371,377,382,387,393,398,403,408,413,418,422>>,
    <<45,64,79,92,103,113,123,132,141,149,157,164,171,178,185,192,198,204,210,216,222,228,234,239,245,250,255,261,266,271>>,
    <<0,4,9,16,22,29,35,42,48,54,60,66,72,78,84,89,95,100,106,111,116,121,126,131,136,141,146,150,155,160>>,
    <<0,0,0,1,2,4,6,9,12,15,18,21,24,28,31,35,38,42,46,49,53,57,60,64,68,71,75,79,82,86>>,
    <<0,0,0,0,0,0,1,1,2,3,4,5,6,8,10,11,13,15,17,19,21,23,26,28,30,33,35,37,40,42>>,
    <<0,0,0,0,0,0,0,0,0,0,1,1,1,2,2,3,4,4,5,6,7,8,9,11,12,13,15,16,17,19>>,
    <<0,0,0,0,0,0,0,0,0,0,0,0,0,0,0,1,1,1,1,2,2,3,3,4,4,5,6,6,7,8>>,
    <<0,0,0,0,0,0,0,0,0,0,0,0,0,0,0,0,0,0,0,0,1,1,1,1,1,2,2,2,3,3>>,
    <<0,0,0,0,0,0,0,0,0,0,0,0,0,0,0,0,0,0,0,0,0,0,0,0,0,0,1,1,1,1>>,
    <<0,0,0,0,0,0,0,0,0,0,0,0,0,0,0,0,0,0,0,0,0,0,0,0,0,0,0,0,0,0>>
  >>
>>

DeltaTable ==
<<
  <<
    <<10000,10000,10000,10000,10000,10000,10000,9999,9998,9997,9995,9992,9988,9983,9977,9970,9963,9954,9945,9935,9924,9912,9901,9888,9875,9862,9849,9835,9821,9807>>,
    <<10000,10000,10000,10000,9998,9995,9988,9978,9964,9947,9928,9906,9882,9857,9830,9802,9774,9745,9716,9687,9658,9629,9600,9572,9544,9516,9489,9462,9436,9410>>,
    <<10000,9999,9987,9957,9909,9849,9780,9708,9635,9562,9490,9421,9354,9290,9229,9170,9115,9061,9010,8962,8916,8872,8830,8789,8751,8714,8679,8645,8612,8581>>,
    <<9949,9667,9347,9067,8834,8638,8474,8333,8212,8106,8013,7930,7857,7790,7731,7676,7627,7582,7540,7502,7466,7433,7403,7374,7348,7323,7299,7278,7257,7238>>,
    <<5094,5133,5163,5188,5210,5230,5248,5266,5282,5297,5311,5325,5338,5351,5363,5375,5387,5398,5409,5419,5430,5440,5450,5459,5469,5478,5487,5496,5505,5513>>,
    <<70,426,820,1163,1453,1697,1906,2088,2247,2388,2514,2628,2732,2826,2913,2994,3069,3139,3204,3265,3323,3378,3429,3479,3525,3570,3612,3653,3692,3730>>,
    <<0,3,27,81,162,260,368,479,591,701,809,913,1013,1110,1202,1291,1376,1457,1535,1610,1682,1751,1818,1881,1943,2002,2059,2115,2168,2220>>,
    <<0,0,0,2,7,18,37,62,94,132,174,220,269,320,373,427,481,536,591,645,700,754,807,859,911,962,1012,1062,1110,1158>>,
    <<0,0,0,0,0,1,2,5,9,16,25,37,51,68,87,108,132,156,183,211,239,269,300,332,364,396,429,463,496,530>>,
    <<0,0,0,0,0,0,0,0,1,1,2,4,7,11,16,21,28,36,46,56,68,80,94,109,124,141,158,176,194,213>>,
    <<0,0,0,0,0,0,0,0,0,0,0,0,1,1,2,3,5,7,9,12,16,20,25,30,36,43,50,58,67,76>>,
    <<0,0,0,0,0,0,0,0,0,0,0,0,0,0,0,0,1,1,2,2,3,4,6,7,9,12,14,17,20,24>>,
    <<0,0,0,0,0,0,0,0,0,0,0,0,0,0,0,0,0,0,0,0,1,1,1,2,2,3,3,4,6,7>>,
    <<0,0,0,0,0,0,0,0,0,0,0,0,0,0,0,0,0,0,0,0,0,0,0,0,0,1,1,1,1,2>>,
    <<0,0,0,0,0,0,0,0,0,0,0,0,0,0,0,0,0,0,0,0,0,0,0,0,0,0,0,0,0,0>>,
    <<0,0,0,0,0,0,0,0,0,0,0,0,0,0,0,0,0,0,0,0,0,0,0,0,0,0,0,0,0,0>>,
    <<0,0,0,0,0,0,0,0,0,0,0,0,0,0,0,0,0,0,0,0,0,0,0,0,0,0,0,0,0,0>>
  >>,
  <<
    <<10000,10000,10000,10000,10000,10000,10000,10000,10000,10000,10000,10000,10000,10000,10000,10000,9999,9999,9999,9998,9998,9997,9996,9995,9994,9992,9991,9989,9987,9985>>,
    <<10000,10000,10000,10000,10000,10000,10000,10000,10000,10000,10000,9999,9999,9998,9996,9995,9993,9991,9988,9984,9981,9977,9972,9967,9962,9956,9950,9944,9937,9930>>,
    <<10000,10000,10000,10000,10000,10000,9999,9999,9997,9994,9991,9986,9980,9973,9964,9955,9944,9933,9921,9908,9894,9880,9865,9850,9834,9819,9803,9787,9770,9754>>,
    <<10000,10000,10000,9999,9996,9990,9980,9965,9947,9924,9899,9872,9842,9812,9780,9748,9715,9682,9649,9617,9585,9553,9521,9490,9460,9430,9401,9372,9344,9317>>,
    <<10000,9998,9979,9937,9876,9802,9722,9640,9558,9478,9401,9327,9256,9189,9125,9064,9007,8952,8900,8851,8804,8760,8717,8677,8638,8602,8566,8533,8501,8470>>,
    <<9927,9594,9247,8955,8717,8520,8356,8217,8097,7993,7903,7822,7751,7687,7629,7577,7529,7486,7446,7409,7375,7344,7315,7288,7262,7239,7217,7196,7177,7159>>,
    <<5094,5133,5163,5188,5210,5230,5248,5266,5282,5297,5311,5325,5338,5351,5363,5375,5387,5398,5409,5419,5430,5440,5450,5459,5469,5478,5487,5496,5505,5513>>,
    <<98,511,932,1288,1581,1827,2035,2214,2371,2510,2633,2745,2846,2938,3023,3101,3174,3242,3305,3365,3421,3474,3524,3571,3617,3660,3701,3741,3778,3815>>,
    <<0,6,40,112,211,325,446,569,691,809,922,1031,1136,1235,1330,1421,1507,1590,1669,1744,1816,1886,1952,2016,2077,2136,2193,2248,2301,2352>>,
    <<0,0,0,3,12,29,54,88,128,174,225,279,335,394,453,512,572,632,691,750,808,865,922,977,1031,1085,1137,1188,1238,1288>>,
    <<0,0,0,0,0,1,4,8,15,25,38,54,73,95,119,146,174,204,235,268,301,336,371,407,443,479,516,552,589,626>>,
    <<0,0,0,0,0,0,0,0,1,2,5,8,12,18,24,33,42,54,66,80,95,111,128,146,165,185,205,227,249,271>>,
    <<0,0,0,0,0,0,0,0,0,0,0,1,1,3,4,6,8,12,15,20,25,31,38,45,53,62,72,82,93,105>>,
    <<0,0,0,0,0,0,0,0,0,0,0,0,0,0,1,1,1,2,3,4,6,8,10,12,15,19,22,27,31,36>>,
    <<0,0,0,0,0,0,0,0,0,0,0,0,0,0,0,0,0,0,0,1,1,2,2,3,4,5,6,8,9,11>>,
    <<0,0,0,0,0,0,0,0,0,0,0,0,0,0,0,0,0,0,0,0,0,0,0,1,1,1,2,2,3,3>>,
    <<0,0,0,0,0,0,0,0,0,0,0,0,0,0,0,0,0,0,0,0,0,0,0,0,0,0,0,0,1,1>>
  >>,
  <<
    <<10000,10000,10000,10000,10000,10000,10000,10000,10000,10000,10000,10000,10000,10000,10000,10000,10000,10000,10000,10000,10000,10000,10000,10000,10000,10000,10000,10000,9999,9999>>,
    <<10000,10000,10000,10000,10000,10000,10000,10000,10000,10000,10000,10000,10000,10000,10000,10000,10000,10000,10000,10000,10000,9999,9999,9999,9998,9998,9997,9997,9996,9995>>,
    <<10000,10000,10000,10000,10000,10000,10000,10000,10000,10000,10000,10000,10000,10000,10000,9999,9999,9998,9998,9997,9996,9994,9993,9991,9989,9987,9984,9982,9979,9976>>,
    <<10000,10000,10000,10000,10000,10000,10000,10000,10000,10000,9999,9998,9997,9996,9994,9991,9988,9984,9980,9975,9970,9964,9958,9952,9944,9937,9929,9921,9912,9903>>,
    <<10000,10000,10000,10000,10000,10000,9999,9997,9994,9990,9985,9978,9969,9959,9948,9935,9922,9907,9892,9876,9859,9842,9824,9806,9788,9770,9751,9733,9714,9696>>,
    <<10000,10000,10000,9998,9994,9984,9969,9949,9925,9896,9865,9832,9797,9762,9725,9688,9652,9615,9579,9543,9508,9474,9440,9407,9374,9343,9312,9282,9253,9224>>,
    <<10000,9996,9968,9913,9837,9750,9659,9568,9478,9392,9310,9232,9158,9089,9023,8961,8902,8846,8794,8744,8697,8652,8610,8570,8531,8495,8460,8427,8395,8364>>,
    <<9900,9516,9146,8846,8604,8407,8244,8107,7990,7888,7800,7722,7653,7591,7535,7485,7439,7397,7359,7324,7292,7262,7234,7208,7184,7162,7141,7121,7103,7086>>,
    <<5094,5133,5163,5188,5210,5230,5248,5266,5282,5297,5311,5325,5338,5351,5363,5375,5387,5398,5409,5419,5430,5440,5450,5459,5469,5478,5487,5496,5505,5513>>,
    <<131,598,1044,1408,1704,1949,2156,2333,2487,2623,2744,2853,2951,3041,3124,3200,3271,3336,3398,3456,3510,3562,3610,3656,3700,3742,3782,3820,3857,3892>>,
    <<0,9,58,148,265,395,529,662,792,916,1035,1148,1256,1358,1454,1546,1634,1717,1796,1872,1944,2013,2079,2143,2204,2262,2318,2373,2425,2475>>,
    <<0,0,1,6,19,42,76,118,167,222,281,343,407,471,537,602,666,730,794,856,917,977,1036,1094,1150,1205,1259,1312,1363,1414>>,
    <<0,0,0,0,1,2,6,13,24,38,55,76,100,127,157,188,222,257,293,330,369,407,447,486,526,566,606,646,685,725>>,
    <<0,0,0,0,0,0,0,1,2,4,8,13,19,27,36,48,61,75,91,108,127,146,167,189,211,235,259,283,309,334>>,
    <<0,0,0,0,0,0,0,0,0,0,1,2,3,4,7,10,14,18,24,30,37,45,54,64,75,86,98,111,125,139>>,
    <<0,0,0,0,0,0,0,0,0,0,0,0,0,1,1,2,3,4,5,7,10,12,16,19,23,28,33,39,46,52>>,
    <<0,0,0,0,0,0,0,0,0,0,0,0,0,0,0,0,0,1,1,1,2,3,4,5,7,8,10,13,15,18>>
  >>
>>

\* The same closed form at volatility 0.10 for S = 10000: Table[strike index][dte]
LowVolPriceTable ==
<<
    <<1502,1503,1505,1507,1508,1510,1511,1513,1515,1516,1518,1520,1521,1523,1524,1526,1528,1529,1531,1533,1534,1536,1537,1539,1541,1542,1544,1546,1547,1549>>,
    <<1252,1253,1255,1257,1258,1260,1262,1263,1265,1267,1268,1270,1272,1273,1275,1277,1278,1280,1282,1283,1285,1287,1289,1290,1292,1294,1295,1297,1299,1300>>,
    <<1002,1003,1005,1007,1009,1010,1012,1014,1016,1017,1019,1021,1022,1024,1026,1028,1029,1031,1033,1034,1036,1038,1040,1041,1043,1045,1046,1048,1050,1052>>,
    <<752,754,755,757,759,761,762,764,766,768,769,771,773,775,777,778,780,782,784,785,787,789,791,793,794,796,798,800,801,803>>,
    <<502,504,505,507,509,511,513,515,516,518,520,522,524,526,528,529,531,533,535,537,539,541,543,545,547,549,551,553,555,557>>,
    <<252,254,256,258,260,262,264,267,269,272,275,277,280,283,285,288,291,294,296,299,302,305,307,310,313,315,318,321,323,326>>,
    <<22,31,39,46,52,57,62,67,72,76,80,84,88,92,96,100,103,107,110,114,117,120,123,127,130,133,136,139,142,145>>,
    <<0,0,0,0,1,2,3,4,5,6,8,10,11,13,15,17,18,20,22,24,26,28,30,32,34,36,38,40,42,44>>,
    <<0,0,0,0,0,0,0,0,0,0,0,0,0,1,1,1,1,2,2,3,3,3,4,5,5,6,6,7,8,9>>,
    <<0,0,0,0,0,0,0,0,0,0,0,0,0,0,0,0,0,0,0,0,0,0,0,0,0,1,1,1,1,1>>,
    <<0,0,0,0,0,0,0,0,0,0,0,0,0,0,0,0,0,0,0,0,0,0,0,0,0,0,0,0,0,0>>,
    <<0,0,0,0,0,0,0,0,0,0,0,0,0,0,0,0,0,0,0,0,0,0,0,0,0,0,0,0,0,0>>,
    <<0,0,0,0,0,0,0,0,0,0,0,0,0,0,0,0,0,0,0,0,0,0,0,0,0,0,0,0,0,0>>,
    <<0,0,0,0,0,0,0,0,0,0,0,0,0,0,0,0,0,0,0,0,0,0,0,0,0,0,0,0,0,0>>,
    <<0,0,0,0,0,0,0,0,0,0,0,0,0,0,0,0,0,0,0,0,0,0,0,0,0,0,0,0,0,0>>,
    <<0,0,0,0,0,0,0,0,0,0,0,0,0,0,0,0,0,0,0,0,0,0,0,0,0,0,0,0,0,0>>,
    <<0,0,0,0,0,0,0,0,0,0,0,0,0,0,0,0,0,0,0,0,0,0,0,0,0,0,0,0,0,0>>
>>

LowVolDeltaTable ==
<<
    <<10000,10000,10000,10000,10000,10000,10000,10000,10000,10000,10000,10000,10000,10000,10000,10000,10000,10000,10000,10000,10000,10000,10000,10000,10000,10000,10000,10000,10000,10000>>,
    <<10000,10000,10000,10000,10000,10000,10000,10000,10000,10000,10000,10000,10000,10000,10000,10000,10000,10000,10000,10000,10000,10000,10000,10000,10000,10000,10000,10000,10000,10000>>,
    <<10000,10000,10000,10000,10000,10000,10000,10000,10000,10000,10000,10000,10000,10000,10000,10000,10000,10000,10000,10000,10000,10000,10000,10000,10000,10000,10000,10000,10000,9999>>,
    <<10000,10000,10000,10000,10000,10000,10000,10000,10000,10000,10000,10000,10000,10000,10000,9999,9999,9999,9998,9998,9997,9996,9995,9994,9993,9991,9989,9987,9985,9983>>,
    <<10000,10000,10000,10000,10000,10000,9999,9998,9996,9994,9990,9985,9979,9972,9963,9954,9944,9934,9922,9910,9898,9885,9872,9858,9845,9831,9817,9803,9789,9775>>,
    <<10000,9997,9979,9937,9878,9808,9733,9657,9582,9509,9439,9373,9310,9250,9194,9141,9091,9043,8999,8956,8917,8879,8843,8809,8777,8747,8718,8690,8664,8639>>,
    <<5157,5221,5271,5313,5350,5383,5414,5442,5469,5494,5518,5541,5563,5584,5604,5624,5643,5661,5679,5697,5714,5730,5747,5763,5778,5793,5808,5823,5837,5851>>,
    <<0,5,40,113,216,336,466,598,729,857,981,1101,1216,1327,1432,1533,1630,1722,1811,1896,1978,2056,2132,2205,2275,2342,2407,2471,2531,2590>>,
    <<0,0,0,0,0,1,3,7,14,24,37,53,73,95,121,149,179,212,246,281,319,357,396,436,477,518,559,601,643,685>>,
    <<0,0,0,0,0,0,0,0,0,0,0,1,1,2,3,5,7,10,14,18,23,29,35,43,51,60,70,81,93,105>>,
    <<0,0,0,0,0,0,0,0,0,0,0,0,0,0,0,0,0,0,0,0,1,1,2,2,3,4,5,6,8,9>>,
    <<0,0,0,0,0,0,0,0,0,0,0,0,0,0,0,0,0,0,0,0,0,0,0,0,0,0,0,0,0,0>>,
    <<0,0,0,0,0,0,0,0,0,0,0,0,0,0,0,0,0,0,0,0,0,0,0,0,0,0,0,0,0,0>>,
    <<0,0,0,0,0,0,0,0,0,0,0,0,0,0,0,0,0,0,0,0,0,0,0,0,0,0,0,0,0,0>>,
    <<0,0,0,0,0,0,0,0,0,0,0,0,0,0,0,0,0,0,0,0,0,0,0,0,0,0,0,0,0,0>>,
    <<0,0,0,0,0,0,0,0,0,0,0,0,0,0,0,0,0,0,0,0,0,0,0,0,0,0,0,0,0,0>>,
    <<0,0,0,0,0,0,0,0,0,0,0,0,0,0,0,0,0,0,0,0,0,0,0,0,0,0,0,0,0,0>>
>>

SpotIndex(spot) == (spot - 9500) \div 500 + 1

StrikeIndex(strike) == (strike - 8500) \div 250 + 1

\* calculate_option_price(spot, strike, dte/365, volatility, 'CE'), in paise
CalculateOptionPrice(spot, strike, dte, volatility) ==
    IF volatility = 10 THEN LowVolPriceTable[StrikeIndex(strike)][dte]
    ELSE OptionPriceTable[SpotIndex(spot)][StrikeIndex(strike)][dte]

\* calculate_delta(spot, strike, dte/365, volatility, 'CE'), in 1/10000
CalculateDelta(spot, strike, dte, volatility) ==
    IF volatility = 10 THEN LowVolDeltaTable[StrikeIndex(strike)][dte]
    ELSE DeltaTable[SpotIndex(spot)][StrikeIndex(strike)][dte]

\* Improves with "<=": a later strike with the same difference replaces the best
Improves_OrEqual(diff, min_diff) == min_diff = <<>> \/ diff <= min_diff[1]

\* "if diff < min_diff"; min_diff is <<>> for float('inf'), else <<difference>>
Improves(diff, min_diff) == min_diff = <<>> \/ diff < min_diff[1]

\* the difference find_strike_by_delta minimises: absolute values for puts
DeltaDiff(delta, target_delta, option_type) ==
    IF option_type = "PE" THEN Abs(Abs(delta) - Abs(target_delta))
    ELSE Abs(delta - target_delta)

\* the loop of find_strike_by_delta from strike number i on: deltas[i] is the
\* delta of available_strikes[i]; best is <<>> for None, else <<best_strike>>
RECURSIVE DeltaScan(_, _, _, _, _, _, _)
DeltaScan(available_strikes, deltas, target_delta, option_type, i, best, min_diff) ==
    IF i > Len(available_strikes) THEN best
    ELSE LET diff == DeltaDiff(deltas[i], target_delta, option_type)
         IN  IF Improves(diff, min_diff)
             THEN DeltaScan(available_strikes, deltas, target_delta, option_type,
                            i + 1, <<available_strikes[i]>>, <<diff>>)
             ELSE DeltaScan(available_strikes, deltas, target_delta, option_type,
                            i + 1, best, min_diff)

\* find_strike_by_delta for calls, as the engine calls it (the list is not empty)
FindStrikeByDelta(spot, dte, volatility, target_delta, available_strikes) ==
    LET deltas == [k \in 1..Len(available_strikes) |->
                      CalculateDelta(spot, available_strikes[k], dte, volatility)]
    IN  DeltaScan(available_strikes, deltas, target_delta, "CE", 1, <<>>, <<>>)[1]

\* min(strikes, key=lambda x: abs(x - target)): the first strike nearest to target.
\* target is a rational tnum/tden (paise).
NearestStrike(strikes, tnum, tden) ==
    LET dist(k) == Abs(strikes[k] * tden - tnum)
        best == CHOOSE i \in 1..Len(strikes) :
                    /\ \A j \in 1..Len(strikes) : dist(i) <= dist(j)
                    /\ \A j \in 1..(i - 1) : dist(j) > dist(i)
    IN  strikes[best]

(***************************************************************************)
(* BacktestConfig.  stop_loss_multiple is in hundredths (200 = 2.0x),      *)
(* trailing_stop_activation and trailing_stop_distance in basis points.    *)
(* use_entry_filters stands for "some entry filter of the chain is         *)
(* enabled"; the chain itself is FilterChain below.                        *)
(***************************************************************************)
BaseConfig ==
    [ symbols                  |-> <<"A", "B">>,
      strike_method            |-> "DELTA_30",
      exit_strategy            |-> "HOLD_TO_EXPIRY",
      initial_capital          |-> 30000,
      position_size            |-> 1,
      default_iv               |-> 20,
      profit_target_pct        |-> 50,
      stop_loss_multiple       |-> 100,
      allow_sl_adjustment      |-> FALSE,
      use_dte_exit             |-> FALSE,
      dte_exit_threshold       |-> 7,
      use_trailing_stop        |-> FALSE,
      trailing_stop_activation |-> 2500,
      trailing_stop_distance   |-> 1500,
      atr_multiplier           |-> 15,
      use_entry_filters        |-> FALSE ]

StrikeMethods ==
    { "DELTA_30", "DELTA_40", "OTM_2PCT", "OTM_5PCT", "ATM", "ADAPTIVE_DELTA",
      "ATR_BASED", "BOLLINGER_UPPER", "PIVOT_R1", "PIVOT_R2" }

ExitStrategies ==
    { "HOLD_TO_EXPIRY", "PROFIT_TARGET", "STOP_LOSS", "PROFIT_TARGET_AND_STOP_LOSS" }

\* get_lot_size: FNO_LOT_SIZES.get(symbol, 1); "A" and "B" are not in the table
GetLotSize(symbol) == 1

(***************************************************************************)
(* Indicator values read by _select_strike on the entry date.  The         *)
(* indicator arithmetic over the OHLCV window is not modelled: the value   *)
(* it yields is an input.  bb is <<>> when the Bollinger band is not       *)
(* available (short history or NaN), else <<upper band>>.  rows is the     *)
(* number of rows dated at or before the entry date and hv the annualised  *)
(* standard deviation of the log returns, from which the volatility is     *)
(* estimated; with fewer than 10 rows the estimate is the default.         *)
(***************************************************************************)
NoIndicators ==
    [atr |-> 0, r1 |-> 0, r2 |-> 0, bb |-> <<>>, target_delta |-> 3000,
     rows |-> 5, hv |-> 0]

Levels == {9000, 10300, 20000}

IndicatorSnapshots(method) ==
    CASE method = "ATR_BASED" ->
            {[NoIndicators EXCEPT !.atr = a] : a \in {0, 200, 2000}}
      [] method = "PIVOT_R1" ->
            {[NoIndicators EXCEPT !.r1 = x] : x \in Levels}
      [] method = "PIVOT_R2" ->
            {[NoIndicators EXCEPT !.r2 = x] : x \in Levels}
      [] method = "BOLLINGER_UPPER" ->
            {NoIndicators} \cup {[NoIndicators EXCEPT !.bb = <<x>>] : x \in Levels}
      [] method = "ADAPTIVE_DELTA" ->
            {[NoIndicators EXCEPT !.target_delta = t] : t \in {3500, 3000, 2500, 2000}}
      [] OTHER -> {NoIndicators}

\* The table of "B" is flat at 10000: its ATR is 0, its pivot levels and its upper
\* band equal the close, its IV percentile is the default.
FlatIndicators ==
    [atr |-> 0, r1 |-> 10000, r2 |-> 10000, bb |-> <<10000>>, target_delta |-> 3000,
     rows |-> 5, hv |-> 0]

IndicatorsOf(symbol, method) ==
    IF symbol = "A" THEN IndicatorSnapshots(method) ELSE {FlatIndicators}

\* _select_strike
SelectStrike(config, stock_price, dte, iv, ind) ==
    LET strike_interval == GetStrikeInterval(stock_price)
        strikes == GenerateStrikes(stock_price, strike_interval)
        method  == config.strike_method
        otm2    == NearestStrike(strikes, 102 * stock_price, 100)
        otm5    == NearestStrike(strikes, 105 * stock_price, 100)
    IN  CASE method = "ATR_BASED" ->
                NearestStrike(strikes, 10 * stock_price + ind.atr * config.atr_multiplier, 10)
          [] method = "ADAPTIVE_DELTA" ->
                FindStrikeByDelta(stock_price, dte, iv, ind.target_delta, strikes)
          [] method = "DELTA_30" ->
                FindStrikeByDelta(stock_price, dte, iv, 3000, strikes)
          [] method = "DELTA_40" ->
                FindStrikeByDelta(stock_price, dte, iv, 4000, strikes)
          [] method = "OTM_2PCT" -> otm2
          [] method = "OTM_5PCT" -> otm5
          [] method = "ATM" -> NearestStrike(strikes, stock_price, 1)
          [] method = "PIVOT_R1" ->
                IF ind.r1 <= stock_price THEN otm2 ELSE NearestStrike(strikes, ind.r1, 1)
          [] method = "PIVOT_R2" ->
                IF ind.r2 <= stock_price THEN otm5 ELSE NearestStrike(strikes, ind.r2, 1)
          [] method = "BOLLINGER_UPPER" ->
                IF ind.bb # <<>> /\ ind.bb[1] > stock_price
                THEN NearestStrike(strikes, ind.bb[1], 1)
                ELSE otm2
          [] OTHER -> otm2

(***************************************************************************)
(* The volatility _open_position passes to the pricing model, in percent   *)
(* (20 = 0.20).  The history of the symbol is given by the number of rows  *)
(* dated at or before the entry date and by the annualised standard        *)
(* deviation of its log returns (returns.std() * sqrt(252)), which is 0    *)
(* for a flat table.                                                       *)
(***************************************************************************)
\* annualised realised volatility of a table: flat, calm, wild
RealizedVols == {0, 15, 90}

\* len of the history: around the thresholds 10 (_estimate_iv, calculate_iv_from_hv),
\* 30 and 31 (calculate_metrics)
RowCounts == {5, 10, 29, 30, 31, 60}

Max2(a, b) == IF a >= b THEN a ELSE b

Min2(a, b) == IF a <= b THEN a ELSE b

\* _estimate_iv: the default below 10 rows, else HV * 1.2 clamped to [0.10, 0.80]
EstimateIV(cfg, rows, hv) ==
    IF rows < 10 THEN cfg.default_iv
    ELSE Max2(10, Min2(80, (hv * 12) \div 10))

\* IVPercentileService.calculate_iv_from_hv on `count` returns
CalculateIvFromHv(count, hv) ==
    IF count < 10 THEN 20
    ELSE Max2(10, Min2(80, (hv * 12) \div 10))

\* IVMetrics.current_iv of IVPercentileService.calculate_metrics: the defaults below
\* 30 rows; with fewer than 10 rolling estimates calculate_iv_from_hv of the last 20
\* returns; else the most recent rolling estimate, HV * 1.2 as it is
CurrentIV(rows, hv) ==
    LET returns     == rows - 1
        rolling_ivs == Max2(0, returns - 20)
    IN  IF rows < 30 THEN 20
        ELSE IF rolling_ivs < 10 THEN CalculateIvFromHv(Min2(returns, 20), hv)
        ELSE (hv * 12) \div 10

\* the iv of _open_position: iv_metrics.current_iv under ADAPTIVE_DELTA, else
\* _estimate_iv
EntryVolatility(cfg, rows, hv) ==
    IF cfg.strike_method = "ADAPTIVE_DELTA" THEN CurrentIV(rows, hv)
    ELSE EstimateIV(cfg, rows, hv)

(***************************************************************************)
(* Engine state of one CoveredCallEngine instance, as a record e:          *)
(*   positions    the dict symbol -> Position, as the sequence of its      *)
(*                values in insertion order (the order Python iterates it) *)
(*   trades       the list of Trade records                                *)
(*   cash         self.cash                                                *)
(*   equity_curve the entry written last into the dict date -> value (the  *)
(*                engine never reads the dict back)                        *)
(*   opened       history counter: completed _open_position calls that     *)
(*                stored a position                                        *)
(* A position carries two history fields the source does not have: id, the *)
(* value of opened when it was stored, and adjustments, the number of      *)
(* _adjust_position calls made on it.  Its trade copies both.              *)
(***************************************************************************)
NoEquity == [date |-> 0, value |-> 0]

NewEngine(config) ==
    [ positions    |-> <<>>,
      trades       |-> <<>>,
      cash         |-> config.initial_capital,
      equity_curve |-> NoEquity,
      opened       |-> 0 ]

\* symbol in self.positions
HasPosition(positions, symbol) ==
    \E i \in 1..Len(positions) : positions[i].symbol = symbol

\* self.positions[symbol]
PositionOf(positions, symbol) ==
    positions[CHOOSE i \in 1..Len(positions) : positions[i].symbol = symbol]

\* self.positions[symbol] = position: replaces the value of an existing key in
\* place, appends a new key
DictSet(positions, position) ==
    IF HasPosition(positions, position.symbol)
    THEN [i \in 1..Len(positions) |->
            IF positions[i].symbol = position.symbol THEN position ELSE positions[i]]
    ELSE Append(positions, position)

\* self.positions.pop(symbol)
DictPop(positions, symbol) ==
    SelectSeq(positions, LAMBDA p : p.symbol # symbol)

\* exit_reason strings: kind, the number formatted into it, the _AFTER_ADJ suffix
\* NewTrailState with the mark at the whole premium
NewTrailState_FullMark == [profit_high_water_mark |-> 10000, trailing_stop_active |-> FALSE]

\* the trailing-stop fields of a new Position: profit_high_water_mark = 0.0,
\* trailing_stop_active = False
NewTrailState == [profit_high_water_mark |-> 0, trailing_stop_active |-> FALSE]

Reason(kind, arg, after_adj) == [kind |-> kind, arg |-> arg, after_adj |-> after_adj]

\* _open_position
OpenPosition(e, config, symbol, entry_date, stock_price, ind) ==
    LET lot_size    == GetLotSize(symbol)
        expiry_date == GetMonthlyExpiry(entry_date)
        dte         == expiry_date - entry_date
        iv          == EntryVolatility(config, ind.rows, ind.hv)
        strike      == SelectStrike(config, stock_price, dte, iv, ind)
        premium     == CalculateOptionPrice(stock_price, strike, dte, iv)
        delta       == CalculateDelta(stock_price, strike, dte, iv)
        position    ==
            [ symbol                 |-> symbol,
              lot_size               |-> lot_size * config.position_size,
              entry_date             |-> entry_date,
              stock_entry_price      |-> stock_price,
              strike_price           |-> strike,
              premium_received       |-> premium,
              expiry_date            |-> expiry_date,
              delta_at_entry         |-> delta,
              iv_at_entry            |-> iv,
              adjusted               |-> FALSE,
              original_premium       |-> 0,
              adjustment_date        |-> 0,
              adjustment_cost        |-> 0,
              profit_high_water_mark |-> NewTrailState.profit_high_water_mark,
              trailing_stop_active   |-> NewTrailState.trailing_stop_active,
              adjustments            |-> 0,
              id                     |-> e.opened + 1 ]
    IN  IF dte < 7 THEN e
        ELSE [e EXCEPT
                !.positions = DictSet(e.positions, position),
                !.cash      = e.cash - stock_price * position.lot_size
                                     + premium * position.lot_size,
                !.opened    = e.opened + 1]

\* CloseCredit that leaves out the option buy-back
CloseCredit_NoBuyback(position, stock_exit_price, option_exit_price, exit_reason) ==
    IF exit_reason.kind = "ASSIGNED"
    THEN position.strike_price * position.lot_size
    ELSE stock_exit_price * position.lot_size

\* cash credited by _close_position
CloseCredit(position, stock_exit_price, option_exit_price, exit_reason) ==
    IF exit_reason.kind = "ASSIGNED"
    THEN position.strike_price * position.lot_size
    ELSE stock_exit_price * position.lot_size - option_exit_price * position.lot_size

\* TradeDates with the two dates exchanged
TradeDates_Swapped(position, exit_date) ==
    [entry_date |-> exit_date, exit_date |-> position.entry_date]

\* the entry_date and exit_date _close_position writes into the Trade
TradeDates(position, exit_date) ==
    [entry_date |-> position.entry_date, exit_date |-> exit_date]

\* _close_position
ClosePosition(e, symbol, exit_date, stock_exit_price, option_exit_price, exit_reason) ==
    LET position  == PositionOf(e.positions, symbol)
        stock_pnl == (stock_exit_price - position.stock_entry_price) * position.lot_size
        option_pnl == (position.premium_received - option_exit_price) * position.lot_size
        total_pnl == stock_pnl + option_pnl
        initial_investment == position.stock_entry_price * position.lot_size
        trade ==
            [ symbol            |-> symbol,
              lot_size          |-> position.lot_size,
              entry_date        |-> TradeDates(position, exit_date).entry_date,
              stock_entry_price |-> position.stock_entry_price,
              strike_price      |-> position.strike_price,
              premium_received  |-> position.premium_received,
              expiry_date       |-> position.expiry_date,
              exit_date         |-> TradeDates(position, exit_date).exit_date,
              stock_exit_price  |-> stock_exit_price,
              option_exit_price |-> option_exit_price,
              exit_reason       |-> exit_reason,
              stock_pnl         |-> stock_pnl,
              option_pnl        |-> option_pnl,
              total_pnl         |-> total_pnl,
              return_pct        |-> IF initial_investment > 0
                                    THEN (total_pnl * 10000) \div initial_investment
                                    ELSE 0,
              adjustments       |-> position.adjustments,
              id                |-> position.id ]
    IN  [e EXCEPT
            !.positions = DictPop(e.positions, symbol),
            !.trades    = Append(e.trades, trade),
            !.cash      = e.cash + CloseCredit(position, stock_exit_price,
                                               option_exit_price, exit_reason)]

\* IsAssigned with the boundary excluded
IsAssigned_Strict(stock_price, strike_price) == stock_price > strike_price

\* the comparison of _handle_expiry: assigned when the stock is at or above the strike
IsAssigned(stock_price, strike_price) == stock_price >= strike_price

\* _handle_expiry.  price is <<>> when _get_price returns None, else <<close>>.
HandleExpiry(e, symbol, current_date, price) ==
    LET position    == PositionOf(e.positions, symbol)
        stock_price == IF price = <<>> THEN position.stock_entry_price ELSE price[1]
    IN  IF IsAssigned(stock_price, position.strike_price)
        THEN ClosePosition(e, symbol, current_date, position.strike_price, 0,
                           Reason("ASSIGNED", 0, FALSE))
        ELSE ClosePosition(e, symbol, current_date, stock_price, 0,
                           Reason("EXPIRY", 0, FALSE))

RECURSIVE HandleExpiries(_, _, _, _)
HandleExpiries(e, expired_symbols, current_date, prices) ==
    IF expired_symbols = <<>> THEN e
    ELSE HandleExpiries(
            HandleExpiry(e, Head(expired_symbols), current_date,
                         prices[Head(expired_symbols)]),
            Tail(expired_symbols), current_date, prices)

\* the symbols of a sequence of positions, in order
SymbolsOf(positions) == [i \in 1..Len(positions) |-> positions[i].symbol]

\* _check_expiries
CheckExpiries(e, current_date, prices) ==
    LET expired == SelectSeq(e.positions, LAMBDA p : current_date >= p.expiry_date)
    IN  HandleExpiries(e, SymbolsOf(expired), current_date, prices)

\* CheckProfitTarget that also selects the rule under HOLD_TO_EXPIRY
CheckProfitTarget_Hold(config) ==
    config.exit_strategy \in {"PROFIT_TARGET", "PROFIT_TARGET_AND_STOP_LOSS", "HOLD_TO_EXPIRY"}

\* exit rules selected by config.exit_strategy (_check_early_exits)
CheckProfitTarget(config) ==
    config.exit_strategy \in {"PROFIT_TARGET", "PROFIT_TARGET_AND_STOP_LOSS"}

CheckStopLoss(config) ==
    config.exit_strategy \in {"STOP_LOSS", "PROFIT_TARGET_AND_STOP_LOSS"}

\* profit_pct = (option_pnl / max_profit) * 100 if max_profit > 0 else 0, basis points
ProfitPct(option_pnl, max_profit) ==
    IF max_profit > 0 THEN (option_pnl * 10000) \div max_profit ELSE 0

\* TrailUpdate that records the day's profit as the mark and activation state
TrailUpdate_Latest(config, position, profit_pct) ==
    [position EXCEPT !.profit_high_water_mark = profit_pct,
                     !.trailing_stop_active =
                         profit_pct >= config.trailing_stop_activation]

\* the trailing-stop bookkeeping of _check_early_exits: high-water mark, activation
TrailUpdate(config, position, profit_pct) ==
    LET hwm == IF profit_pct > position.profit_high_water_mark
               THEN profit_pct ELSE position.profit_high_water_mark
        active == position.trailing_stop_active
                  \/ profit_pct >= config.trailing_stop_activation
    IN  [position EXCEPT !.profit_high_water_mark = hwm,
                         !.trailing_stop_active = active]

\* TargetReached with a strict comparison
TargetReached_Strict(option_pnl, max_profit, profit_target_pct) ==
    option_pnl * 100 > max_profit * profit_target_pct

\* option_pnl >= max_profit * target_pct, target_pct = profit_target_pct / 100
TargetReached(option_pnl, max_profit, profit_target_pct) ==
    option_pnl * 100 >= max_profit * profit_target_pct

\* AdjustInsteadOfClose without the test of position.adjusted
AdjustInsteadOfClose_Always(config, position) == config.allow_sl_adjustment

\* whether the stop-loss branch adjusts (rolls up) instead of closing
AdjustInsteadOfClose(config, position) ==
    config.allow_sl_adjustment /\ ~position.adjusted

\* FirstMatch with the stop loss looked at before the other rules
FirstMatch_StopLossFirst(dte_hit, trailing_hit, target_hit, stop_hit) ==
    IF stop_hit THEN "STOP_LOSS"
    ELSE IF dte_hit THEN "DTE_EXIT"
    ELSE IF trailing_hit THEN "TRAILING_STOP"
    ELSE IF target_hit THEN "PROFIT_TARGET"
    ELSE "NONE"

\* The if/continue chain of the loop of _check_early_exits: the first rule, in
\* source order, whose condition holds; the later rules are not looked at
FirstMatch(dte_hit, trailing_hit, target_hit, stop_hit) ==
    IF dte_hit THEN "DTE_EXIT"
    ELSE IF trailing_hit THEN "TRAILING_STOP"
    ELSE IF target_hit THEN "PROFIT_TARGET"
    ELSE IF stop_hit THEN "STOP_LOSS"
    ELSE "NONE"

\* The body of the loop of _check_early_exits for one position with dte > 0 and a
\* price: the position as the loop leaves it and what is queued for it.
EvaluateExit(config, position, stock_price, current_date) ==
    LET dte == position.expiry_date - current_date
        iv  == position.iv_at_entry
        current_option_price ==
            CalculateOptionPrice(stock_price, position.strike_price, dte, iv)
        option_pnl == position.premium_received - current_option_price
        max_profit == position.premium_received
        profit_pct == ProfitPct(option_pnl, max_profit)
        trailed    == IF config.use_trailing_stop
                      THEN TrailUpdate(config, position, profit_pct)
                      ELSE position
        dte_hit    == config.use_dte_exit /\ dte <= config.dte_exit_threshold
        trailing_hit ==
            /\ config.use_trailing_stop
            /\ trailed.trailing_stop_active
            /\ trailed.profit_high_water_mark - profit_pct >= config.trailing_stop_distance
        target_hit ==
            /\ CheckProfitTarget(config)
            /\ TargetReached(option_pnl, max_profit, config.profit_target_pct)
        stop_hit ==
            /\ CheckStopLoss(config)
            /\ option_pnl * 100 <= -(config.stop_loss_multiple * position.premium_received)
        rule == FirstMatch(dte_hit, trailing_hit, target_hit, stop_hit)
        queue(pos, action, reason) ==
            [ position |-> pos, action |-> action, reason |-> reason,
              symbol |-> position.symbol, stock_price |-> stock_price,
              option_price |-> current_option_price,
              premium_lost |-> Abs(option_pnl), dte |-> dte, iv |-> iv ]
    IN  CASE rule = "DTE_EXIT" ->
                queue(position, "close", Reason("DTE_EXIT", dte, FALSE))
          [] rule = "TRAILING_STOP" ->
                queue(trailed, "close",
                      Reason("TRAILING_STOP", trailed.profit_high_water_mark \div 100, FALSE))
          [] rule = "PROFIT_TARGET" ->
                queue(trailed, "close",
                      Reason("PROFIT_TARGET", config.profit_target_pct, FALSE))
          [] rule = "STOP_LOSS" ->
                IF AdjustInsteadOfClose(config, position)
                THEN queue(trailed, "adjust", Reason("", 0, FALSE))
                ELSE queue(trailed, "close",
                           Reason("STOP_LOSS", config.stop_loss_multiple, position.adjusted))
          [] OTHER -> queue(trailed, "none", Reason("", 0, FALSE))

\* whether the loop of _check_early_exits evaluates the position at all
Evaluated(position, current_date, prices) ==
    /\ prices[position.symbol] # <<>>
    /\ position.expiry_date - current_date > 0

\* AdjustedStrike that sells the computed minimum instead of a listed strike
AdjustedStrike_Unsnapped(position, stock_price, premium_lost) ==
    position.strike_price + premium_lost

\* the choice among the ladder strikes in _adjust_position: the lowest strike at or
\* above min_new_strike, else the highest strike of the ladder
RollStrike(strikes, min_new_strike) ==
    LET valid_strikes == SelectSeq(strikes, LAMBDA s : s >= min_new_strike)
    IN  IF valid_strikes = <<>> THEN SeqMax(strikes) ELSE SeqMin(valid_strikes)

\* the strike a roll-up sells (_adjust_position)
AdjustedStrike(position, stock_price, premium_lost) ==
    LET strikes == GenerateStrikes(stock_price, GetStrikeInterval(stock_price))
        \* otm_increase * stock_price, with otm_increase = premium_lost / stock_price
        min_new_strike == position.strike_price + premium_lost
    IN  RollStrike(strikes, min_new_strike)

\* AdjustPosition that opens the rolled option as a new cycle: entry date set to
\* the adjustment date and trailing-stop state cleared
AdjustPosition_NewCycle(e, q, current_date) ==
    LET position == PositionOf(e.positions, q.symbol)
    IN  [e EXCEPT
            !.positions = DictSet(e.positions,
                [position EXCEPT !.entry_date = current_date,
                                 !.profit_high_water_mark = 0,
                                 !.trailing_stop_active = FALSE,
                                 !.adjusted = TRUE,
                                 !.adjustment_date = current_date,
                                 !.adjustments = position.adjustments + 1]),
            !.cash = e.cash]

\* _adjust_position; q is the entry of symbols_to_adjust
AdjustPosition(e, q, current_date) ==
    LET position    == PositionOf(e.positions, q.symbol)
        new_strike  == AdjustedStrike(position, q.stock_price, q.premium_lost)
        new_premium == CalculateOptionPrice(q.stock_price, new_strike, q.dte, q.iv)
        new_delta   == CalculateDelta(q.stock_price, new_strike, q.dte, q.iv)
        adjusted    ==
            [position EXCEPT
                !.original_premium = IF position.original_premium = 0
                                     THEN position.premium_received
                                     ELSE position.original_premium,
                !.adjustment_date  = current_date,
                !.adjustment_cost  = q.option_price,
                !.strike_price     = new_strike,
                !.premium_received = new_premium,
                !.delta_at_entry   = new_delta,
                !.adjusted         = TRUE,
                !.adjustments      = position.adjustments + 1]
    IN  [e EXCEPT
            !.positions = DictSet(e.positions, adjusted),
            !.cash      = e.cash - q.option_price * position.lot_size
                                 + new_premium * position.lot_size]

RECURSIVE AdjustAll(_, _, _)
AdjustAll(e, queue, current_date) ==
    IF queue = <<>> THEN e
    ELSE AdjustAll(AdjustPosition(e, Head(queue), current_date), Tail(queue), current_date)

RECURSIVE CloseAll(_, _, _)
CloseAll(e, queue, current_date) ==
    IF queue = <<>> THEN e
    ELSE CloseAll(
            ClosePosition(e, Head(queue).symbol, current_date, Head(queue).stock_price,
                          Head(queue).option_price, Head(queue).reason),
            Tail(queue), current_date)

\* the loop of _check_early_exits: one pass over the positions, which leaves the
\* positions with their trailing-stop state updated and fills the two queues
ScanPositions(e, config, current_date, prices) ==
    LET outcome(p) ==
            IF Evaluated(p, current_date, prices)
            THEN EvaluateExit(config, p, prices[p.symbol][1], current_date)
            ELSE [position |-> p, action |-> "none"]
        outcomes == [i \in 1..Len(e.positions) |-> outcome(e.positions[i])]
    IN  [ positions |-> [i \in 1..Len(e.positions) |-> outcomes[i].position],
          symbols_to_adjust |-> SelectSeq(outcomes, LAMBDA o : o.action = "adjust"),
          symbols_to_close  |-> SelectSeq(outcomes, LAMBDA o : o.action = "close") ]

\* _check_early_exits: the pass over the positions, then the adjustments, then the closes
CheckEarlyExits(e, config, current_date, prices) ==
    LET scan == ScanPositions(e, config, current_date, prices)
    IN  CloseAll(AdjustAll([e EXCEPT !.positions = scan.positions],
                           scan.symbols_to_adjust, current_date),
                 scan.symbols_to_close, current_date)

\* _process_day: whether step 2 runs
RunsEarlyExits(config) ==
    config.exit_strategy # "HOLD_TO_EXPIRY" \/ config.use_dte_exit \/ config.use_trailing_stop

\* SkipHeld without the guard: a held symbol is entered again
SkipHeld_Never(positions, symbol) == FALSE

\* the guard "if symbol in self.positions: continue" of _check_new_entries
SkipHeld(positions, symbol) == HasPosition(positions, symbol)

\* TryEntry with a monthly-cycle flag: no entry for a symbol that was already
\* entered in the month of the current date
TryEntry_OncePerMonth(e, config, symbol, current_date, prices, filter_pass, ind) ==
    IF \/ HasPosition(e.positions, symbol)
       \/ \E i \in 1..Len(e.trades) :
             /\ e.trades[i].symbol = symbol
             /\ Month(e.trades[i].entry_date) = Month(current_date)
       \/ prices[symbol] = <<>>
       \/ ~filter_pass
       \/ e.cash < prices[symbol][1] * GetLotSize(symbol) * config.position_size
    THEN e
    ELSE OpenPosition(e, config, symbol, current_date, prices[symbol][1], ind)

\* The body of the loop of _check_new_entries for one symbol.  filter_pass is the
\* outcome of the entry-filter chain for the symbol on this date.
TryEntry(e, config, symbol, current_date, prices, filter_pass, ind) ==
    IF SkipHeld(e.positions, symbol) THEN e
    ELSE IF prices[symbol] = <<>> THEN e
    ELSE IF ~filter_pass THEN e
    ELSE IF e.cash < prices[symbol][1] * GetLotSize(symbol) * config.position_size THEN e
    ELSE OpenPosition(e, config, symbol, current_date, prices[symbol][1], ind)

RECURSIVE TryEntries(_, _, _, _, _, _, _)
TryEntries(e, config, symbols, current_date, prices, filter_pass, ind) ==
    IF symbols = <<>> THEN e
    ELSE TryEntries(
            TryEntry(e, config, Head(symbols), current_date, prices,
                     filter_pass[Head(symbols)], ind[Head(symbols)]),
            config, Tail(symbols), current_date, prices, filter_pass, ind)

\* _check_new_entries
CheckNewEntries(e, config, current_date, prices, filter_pass, ind) ==
    IF ~IsEntryDay(current_date) THEN e
    ELSE TryEntries(e, config, config.symbols, current_date, prices, filter_pass, ind)

\* the option liability of _update_equity and _close_all_positions: the model
\* price while dte > 0, the intrinsic value at or after expiry
OptionValue(position, stock_price, date) ==
    LET dte == position.expiry_date - date
    IN  IF dte > 0
        THEN CalculateOptionPrice(stock_price, position.strike_price, dte,
                                  position.iv_at_entry)
        ELSE IF stock_price - position.strike_price > 0
             THEN stock_price - position.strike_price ELSE 0

\* stock price with the fallback "if stock_price is None: position.stock_entry_price"
PriceOrEntry(position, prices) ==
    IF prices[position.symbol] = <<>>
    THEN position.stock_entry_price
    ELSE prices[position.symbol][1]

\* position_value of _update_equity
PositionValue(position, current_date, prices) ==
    LET stock_price == PriceOrEntry(position, prices)
    IN  stock_price * position.lot_size
        - OptionValue(position, stock_price, current_date) * position.lot_size

RECURSIVE SumValues(_, _, _)
SumValues(positions, current_date, prices) ==
    IF positions = <<>> THEN 0
    ELSE PositionValue(Head(positions), current_date, prices)
         + SumValues(Tail(positions), current_date, prices)

\* _update_equity
UpdateEquity(e, current_date, prices) ==
    [e EXCEPT !.equity_curve =
        [date |-> current_date,
         value |-> e.cash + SumValues(e.positions, current_date, prices)]]

RECURSIVE ForceClose(_, _, _, _)
ForceClose(e, symbols, exit_date, prices) ==
    IF symbols = <<>> THEN e
    ELSE LET position    == PositionOf(e.positions, Head(symbols))
             stock_price == PriceOrEntry(position, prices)
         IN  ForceClose(
                ClosePosition(e, Head(symbols), exit_date, stock_price,
                              OptionValue(position, stock_price, exit_date),
                              Reason("END_OF_BACKTEST", 0, FALSE)),
                Tail(symbols), exit_date, prices)

\* CloseAllPositions that walks the dict it pops from and so skips every other key
CloseAllPositions_EveryOther(e, exit_date, prices) ==
    ForceClose(e, SelectSeq(SymbolsOf(e.positions),
                            LAMBDA s : s = SymbolsOf(e.positions)[1]),
               exit_date, prices)

\* _close_all_positions
CloseAllPositions(e, exit_date, prices) ==
    ForceClose(e, SymbolsOf(e.positions), exit_date, prices)

(***************************************************************************)
(* One run of run_backtest.  The price tables are read row by row: the     *)
(* date of the next row and its closes are chosen when the day loop        *)
(* reaches it.  prices[s] is what _get_price(s, current_date) returns:     *)
(* <<>> for None (no row of s dated at or before current_date), else the   *)
(* close of the last such row.                                             *)
(***************************************************************************)
VARIABLES config, pc, current_date, day_count, prices,
          positions, trades, cash, equity_curve, opened, filters, runs, calls

\* the state of one run of the engine
engineVars == <<config, pc, current_date, day_count, prices,
                positions, trades, cash, equity_curve, opened>>

vars == <<engineVars, filters, runs, calls>>

\* the engine instance of the run
Engine ==
    [ positions |-> positions, trades |-> trades, cash |-> cash,
      equity_curve |-> equity_curve, opened |-> opened ]

Becomes(e) ==
    /\ positions' = e.positions
    /\ trades' = e.trades
    /\ cash' = e.cash
    /\ equity_curve' = e.equity_curve
    /\ opened' = e.opened

\* exit policies: every exit strategy with every combination of the roll-up, DTE-exit
\* and trailing-stop switches (a roll-up needs a strategy that checks the stop loss)
ExitConfigs ==
    { [BaseConfig EXCEPT !.exit_strategy = x, !.allow_sl_adjustment = a,
                         !.use_dte_exit = d, !.use_trailing_stop = t] :
        x \in ExitStrategies, a \in BOOLEAN, d \in BOOLEAN, t \in BOOLEAN }

\* profit-target policies that close only once the whole premium is earned
TargetConfigs ==
    { [BaseConfig EXCEPT !.exit_strategy = x, !.profit_target_pct = 100] :
        x \in {"PROFIT_TARGET", "PROFIT_TARGET_AND_STOP_LOSS"} }

Configs ==
    { c \in ExitConfigs : c.allow_sl_adjustment => CheckStopLoss(c) } \cup TargetConfigs

\* strike policies: every strike method, with the stop loss rolling up, and one
\* configuration with entry filters enabled and capital for one position only
StrikeConfigs ==
    { [BaseConfig EXCEPT !.strike_method = m, !.exit_strategy = "STOP_LOSS",
                         !.allow_sl_adjustment = TRUE] : m \in StrikeMethods }
    \cup { [BaseConfig EXCEPT !.use_entry_filters = TRUE, !.initial_capital = 15000] }

\* closes a table can hold for a symbol
ClosesOf(symbol) == IF symbol = "A" THEN PriceSet ELSE {10000}

\* What _get_price returns on the next date: <<>> for None, else <<close>>.  The
\* table of "A" has a row on every date; the table of "B" may start one row late.
NextPrices(first) ==
    { p \in [Symbols -> {<<>>} \cup {<<c>> : c \in PriceSet}] :
        \A s \in Symbols :
            /\ p[s] # <<>> => p[s][1] \in ClosesOf(s)
            /\ p[s] = <<>> => first /\ s = "B" }

\* the filter chain, the repeated runs and the single calls are not exercised by a
\* single run
Idle == [pc |-> "idle"]

InitEngine(configs) ==
    /\ config \in configs
    /\ pc = "next"
    /\ current_date = 0
    /\ day_count = 0
    /\ prices = [s \in Symbols |-> <<>>]
    /\ positions = NewEngine(config).positions
    /\ trades = NewEngine(config).trades
    /\ cash = NewEngine(config).cash
    /\ equity_curve = NewEngine(config).equity_curve
    /\ opened = NewEngine(config).opened
    /\ filters = Idle
    /\ runs = Idle
    /\ calls = Idle

Init == InitEngine(Configs)

InitStrikes == InitEngine(StrikeConfigs)

\* the day loop of run_backtest reads the next trading date
NextDay ==
    /\ pc = "next"
    /\ day_count < MaxDays
    /\ \E d \in (IF day_count = 0 THEN StartDates ELSE {current_date + g : g \in Gaps}) :
          /\ d <= LastDate
          /\ current_date' = d
    /\ prices' \in NextPrices(day_count = 0)
    /\ day_count' = day_count + 1
    /\ pc' = "expiries"
    /\ UNCHANGED <<config, positions, trades, cash, equity_curve, opened, filters, runs, calls>>

\* _process_day step 1
DoCheckExpiries ==
    /\ pc = "expiries"
    /\ Becomes(CheckExpiries(Engine, current_date, prices))
    /\ pc' = "exits"
    /\ UNCHANGED <<config, current_date, day_count, prices, filters, runs, calls>>

\* _process_day step 2
DoCheckEarlyExits ==
    /\ pc = "exits"
    /\ Becomes(IF RunsEarlyExits(config)
               THEN CheckEarlyExits(Engine, config, current_date, prices)
               ELSE Engine)
    /\ pc' = "entries"
    /\ UNCHANGED <<config, current_date, day_count, prices, filters, runs, calls>>

\* outcomes of the entry-filter chain: always a pass when no filter is enabled
FilterOutcomes == IF config.use_entry_filters THEN BOOLEAN ELSE {TRUE}

\* _process_day step 3
DoCheckNewEntries ==
    /\ pc = "entries"
    /\ \E filter_pass \in [Symbols -> FilterOutcomes],
          ind \in [A : IndicatorsOf("A", config.strike_method),
                   B : IndicatorsOf("B", config.strike_method)] :
            Becomes(CheckNewEntries(Engine, config, current_date, prices, filter_pass, ind))
    /\ pc' = "equity"
    /\ UNCHANGED <<config, current_date, day_count, prices, filters, runs, calls>>

\* _process_day step 4
DoUpdateEquity ==
    /\ pc = "equity"
    /\ Becomes(UpdateEquity(Engine, current_date, prices))
    /\ pc' = "next"
    /\ UNCHANGED <<config, current_date, day_count, prices, filters, runs, calls>>

\* run_backtest after the loop: _close_all_positions(config.end_date).  The last
\* trading date is the last row dated <= end_date, so end_date is that date or later.
Finish ==
    /\ pc = "next"
    /\ \E end_date \in {current_date, current_date + 2} :
          Becomes(CloseAllPositions(Engine, end_date, prices))
    /\ pc' = "done"
    /\ UNCHANGED <<config, current_date, day_count, prices, filters, runs, calls>>

Next ==
    \/ NextDay
    \/ DoCheckExpiries
    \/ DoCheckEarlyExits
    \/ DoCheckNewEntries
    \/ DoUpdateEquity
    \/ Finish

Spec == Init /\ [][Next]_vars

SpecStrikes == InitStrikes /\ [][Next]_vars

(***************************************************************************)
(* Properties of a run.                                                    *)
(***************************************************************************)
\* the positions, as a set
OpenPositions == {positions[i] : i \in 1..Len(positions)}

\* the trades of the ledger, as a set
Ledger == {trades[i] : i \in 1..Len(trades)}

\* the trades a step appends
Appended == {trades'[i] : i \in (Len(trades) + 1)..Len(trades')}

\* the price _get_price returns for a symbol that has one
Close(symbol) == prices[symbol][1]

\* C1: at every point of a run no two open positions are for the same symbol, and
\* no entry has replaced a position that was still open: every position ever
\* stored is either open or in the ledger.
C1_OnePositionPerSymbol ==
    /\ \A i, j \in 1..Len(positions) :
          positions[i].symbol = positions[j].symbol => i = j
    /\ opened = Len(positions) + Len(trades)
    /\ \A p \in OpenPositions : \A t \in Ledger : p.id # t.id

\* C1 witness: the entry step has run on an entry day for a symbol that was held
\* from an earlier day, with cash enough to buy it again
C1_Witness ==
    /\ pc = "equity"
    /\ IsEntryDay(current_date)
    /\ \E p \in OpenPositions :
          /\ p.entry_date < current_date
          /\ cash >= Close(p.symbol) * p.lot_size

\* cash plus the book value of the open positions at the current date's prices
Worth == cash + SumValues(positions, current_date, prices)

\* book value written out: (spot - current option value) x lot_size over the positions
RECURSIVE BookValue(_)
BookValue(ps) ==
    IF ps = <<>> THEN 0
    ELSE LET p == Head(ps)
             spot == Close(p.symbol)
         IN  (spot - CalculateOptionPrice(spot, p.strike_price,
                                          p.expiry_date - current_date, p.iv_at_entry))
                * p.lot_size
             + BookValue(Tail(ps))

\* C2: the equity recorded for a date is cash plus (spot - option value) x lot_size
\* over the open positions, and the expiry, early-exit/adjustment and entry steps
\* leave cash plus book value unchanged at that date's prices.
C2_CashConservation ==
    [][ /\ pc \in {"expiries", "exits", "entries"} => Worth' = Worth
        /\ pc = "equity" =>
              /\ equity_curve'.date = current_date
              /\ equity_curve'.value = cash + BookValue(positions) ]_vars

\* C2 witness: a position was opened, rolled up and stopped out, another one is
\* still open, and the equity of the day has been recorded
C2_Witness ==
    /\ pc = "next"
    /\ equity_curve.date = current_date
    /\ positions # <<>>
    /\ \E t \in Ledger : t.exit_reason.kind = "STOP_LOSS" /\ t.exit_reason.after_adj

\* days to expiry of a position on the current date
Dte(p) == p.expiry_date - current_date

\* the option price _check_early_exits computes for a position
OptionNow(p) == CalculateOptionPrice(Close(p.symbol), p.strike_price, Dte(p), p.iv_at_entry)

\* the stop-loss condition: the loss on the option is at least stop_loss_multiple
\* times the premium received
StopLossHolds(p) ==
    (p.premium_received - OptionNow(p)) * 100
        <= -(config.stop_loss_multiple * p.premium_received)

\* the profit-target condition
ProfitTargetHolds(p) ==
    (p.premium_received - OptionNow(p)) * 100
        >= p.premium_received * config.profit_target_pct

\* the DTE-exit condition
DteExitHolds(p) == Dte(p) <= config.dte_exit_threshold

\* the trailing-stop condition, after the day's update of the high-water mark
TrailingStopHolds(p) ==
    LET profit_pct == ProfitPct(p.premium_received - OptionNow(p), p.premium_received)
        hwm    == IF profit_pct > p.profit_high_water_mark
                  THEN profit_pct ELSE p.profit_high_water_mark
        active == p.trailing_stop_active \/ profit_pct >= config.trailing_stop_activation
    IN  active /\ hwm - profit_pct >= config.trailing_stop_distance

\* the enabled rules whose condition holds for a position
RulesHolding(p) ==
    {r \in {"DTE_EXIT", "TRAILING_STOP", "PROFIT_TARGET", "STOP_LOSS"} :
        \/ r = "DTE_EXIT" /\ config.use_dte_exit /\ DteExitHolds(p)
        \/ r = "TRAILING_STOP" /\ config.use_trailing_stop /\ TrailingStopHolds(p)
        \/ r = "PROFIT_TARGET" /\ CheckProfitTarget(config) /\ ProfitTargetHolds(p)
        \/ r = "STOP_LOSS" /\ CheckStopLoss(config) /\ StopLossHolds(p)}

\* precedence: DTE exit > trailing stop > profit target > stop loss
Precedence == <<"DTE_EXIT", "TRAILING_STOP", "PROFIT_TARGET", "STOP_LOSS">>

\* the rule of highest precedence among a non-empty set of rules
Highest(rules) ==
    Precedence[CHOOSE i \in 1..4 :
                  /\ Precedence[i] \in rules
                  /\ \A j \in 1..(i - 1) : Precedence[j] \notin rules]

\* the positions the early-exit step looks at
Checked == {p \in OpenPositions : RunsEarlyExits(config) /\ Evaluated(p, current_date, prices)}

\* the trades the step appends for a position
ClosedNow(p) == {t \in Appended : t.id = p.id}

\* the position a step leaves open for a position it started with
StillOpen(p) == {q \in {positions'[i] : i \in 1..Len(positions')} : q.id = p.id}

\* the step rolled the position up
RolledUp(p) ==
    \E q \in StillOpen(p) : q.adjustments = p.adjustments + 1
                            /\ q.adjustment_date = current_date

\* the step left strike, premium and roll-up record of the position alone
NotRolled(p) ==
    \A q \in StillOpen(p) : /\ q.adjustments = p.adjustments
                            /\ q.strike_price = p.strike_price
                            /\ q.premium_received = p.premium_received
                            /\ q.adjustment_date = p.adjustment_date

\* C3 as stated: a position is rolled up at most once, and when the stop-loss
\* condition holds for a position that has been rolled up, the position is closed
\* that day with a STOP_LOSS reason carrying the _AFTER_ADJ suffix.
C3_Original ==
    [][ pc = "exits" =>
          \A p \in Checked :
              p.adjusted /\ StopLossHolds(p) =>
                  /\ ~RolledUp(p)
                  /\ \E t \in ClosedNow(p) :
                        /\ t.exit_date = current_date
                        /\ t.exit_reason.kind = "STOP_LOSS"
                        /\ t.exit_reason.after_adj ]_vars

\* C3 amended: a position is rolled up at most once in its lifetime, and when the
\* stop-loss condition holds for a position that has been rolled up, the position
\* is closed that day and not rolled again; the reason is STOP_LOSS with the
\* _AFTER_ADJ suffix unless a rule of higher precedence (DTE exit, trailing stop,
\* profit target) also holds, whose reason is then recorded.
C3_AdjustedAtMostOnce ==
    [][ /\ \A i \in 1..Len(positions') :
              /\ positions'[i].adjustments <= 1
              /\ positions'[i].adjusted <=> positions'[i].adjustments = 1
        /\ \A i \in 1..Len(trades') : trades'[i].adjustments <= 1
        /\ pc = "exits" =>
              \A p \in Checked :
                  p.adjusted /\ StopLossHolds(p) =>
                      /\ StillOpen(p) = {}
                      /\ \E t \in ClosedNow(p) :
                            /\ t.exit_date = current_date
                            /\ t.strike_price = p.strike_price
                            /\ t.exit_reason.kind = Highest(RulesHolding(p))
                            /\ t.exit_reason.kind = "STOP_LOSS" => t.exit_reason.after_adj
      ]_vars

\* C3 witness: with roll-ups allowed, a rolled-up position met its stop loss again
\* and was closed with the suffixed reason
C3_Witness ==
    /\ config.allow_sl_adjustment
    /\ pc = "entries"
    /\ \E t \in Ledger :
          /\ t.exit_date = current_date
          /\ t.adjustments = 1
          /\ t.exit_reason.kind = "STOP_LOSS"
          /\ t.exit_reason.after_adj

\* C4: in the early-exit step a position for which no enabled rule's condition
\* holds is left open; otherwise exactly one action is taken for it, that of the
\* rule of highest precedence (DTE exit > trailing stop > profit target > stop
\* loss): a close recording that rule's reason, or for the stop loss a roll-up.
C4_FirstMatchWins ==
    [][ pc = "exits" =>
          \A p \in Checked :
              IF RulesHolding(p) = {}
              THEN ClosedNow(p) = {} /\ StillOpen(p) # {} /\ NotRolled(p)
              ELSE \/ /\ StillOpen(p) = {}
                      /\ Cardinality(ClosedNow(p)) = 1
                      /\ \A t \in ClosedNow(p) :
                            /\ t.exit_reason.kind = Highest(RulesHolding(p))
                            /\ t.exit_date = current_date
                            /\ t.strike_price = p.strike_price
                            /\ t.option_exit_price = OptionNow(p)
                   \/ /\ Highest(RulesHolding(p)) = "STOP_LOSS"
                      /\ ClosedNow(p) = {}
                      /\ RolledUp(p) ]_vars

\* C4 witness: a position was closed by the DTE exit on a day its stop-loss
\* condition held too
C4_Witness ==
    /\ pc = "entries"
    /\ config.use_dte_exit
    /\ CheckStopLoss(config)
    /\ \E t \in Ledger :
          /\ t.exit_date = current_date
          /\ t.exit_reason.kind = "DTE_EXIT"
          /\ (t.premium_received - t.option_exit_price) * 100
                <= -(config.stop_loss_multiple * t.premium_received)

\* the positions the expiry step settles
Expiring == {p \in OpenPositions : current_date >= p.expiry_date}

\* cash the settlements of a sequence of positions bring in: strike x lot_size for
\* an assigned position, stock price x lot_size for one that expired
RECURSIVE SettlementCash(_)
SettlementCash(ps) ==
    IF ps = <<>> THEN 0
    ELSE LET p == Head(ps)
         IN  (IF current_date < p.expiry_date THEN 0
              ELSE IF Close(p.symbol) >= p.strike_price
                   THEN p.strike_price * p.lot_size
                   ELSE Close(p.symbol) * p.lot_size)
             + SettlementCash(Tail(ps))

\* C5: the expiry step closes every position whose expiry date is reached, with
\* reason ASSIGNED exactly when the stock price is at or above the strike, then at
\* the strike and crediting strike x lot_size, and otherwise with reason EXPIRY at
\* the stock price; the option exit value is 0 either way.
C5_ExpirySettlement ==
    [][ pc = "expiries" =>
          /\ \A p \in Expiring :
                /\ StillOpen(p) = {}
                /\ Cardinality(ClosedNow(p)) = 1
                /\ \A t \in ClosedNow(p) :
                      /\ t.exit_date = current_date
                      /\ t.option_exit_price = 0
                      /\ t.exit_reason.kind \in {"ASSIGNED", "EXPIRY"}
                      /\ t.exit_reason.kind = "ASSIGNED"
                            <=> Close(p.symbol) >= p.strike_price
                      /\ t.exit_reason.kind = "ASSIGNED"
                            => t.stock_exit_price = p.strike_price
                      /\ t.exit_reason.kind = "EXPIRY"
                            => t.stock_exit_price = Close(p.symbol)
          /\ cash' = cash + SettlementCash(positions) ]_vars

\* C5 witness: a position was settled as ASSIGNED with the stock exactly at the strike
C5_Witness ==
    /\ pc = "exits"
    /\ \E t \in Ledger :
          /\ t.exit_date = current_date
          /\ t.exit_reason.kind = "ASSIGNED"
          /\ Close(t.symbol) = t.strike_price

\* the ladder _generate_strikes lists for a spot price and its tier
Ladder(spot) == SeqToSet(GenerateStrikes(spot, GetStrikeInterval(spot)))

\* C6: the strike of a position that was not rolled up is on the ladder of its
\* entry price, and the strike a roll-up sets is on the ladder of the stock price
\* of the day of the roll-up.
C6_StrikeOnLadder ==
    \A p \in OpenPositions :
        /\ ~p.adjusted => p.strike_price \in Ladder(p.stock_entry_price)
        /\ p.adjusted /\ p.adjustment_date = current_date
              => p.strike_price \in Ladder(Close(p.symbol))

\* C6 witness: a position entered by a pivot-level strike was rolled up today, at
\* a stock price of another tier than its entry price
C6_Witness ==
    /\ config.strike_method = "PIVOT_R1"
    /\ \E p \in OpenPositions :
          /\ p.adjusted
          /\ p.adjustment_date = current_date
          /\ GetStrikeInterval(Close(p.symbol)) # GetStrikeInterval(p.stock_entry_price)

\* C7: trades are only appended, and when the run returns no position is open:
\* the positions left open by the last date are closed with reason
\* END_OF_BACKTEST, and the ledger holds exactly one trade for every position that
\* was ever opened.
C7_LedgerComplete ==
    [][ /\ Len(trades') >= Len(trades)
        /\ \A i \in 1..Len(trades) : trades'[i] = trades[i]
        /\ pc' = "done" =>
              /\ positions' = <<>>
              /\ \A p \in OpenPositions :
                    \E t \in ClosedNow(p) : t.exit_reason.kind = "END_OF_BACKTEST"
              /\ Len(trades') = Len(trades) + Len(positions)
              /\ Len(trades') = opened'
              /\ \A n \in 1..opened' :
                    Cardinality({i \in 1..Len(trades') : trades'[i].id = n}) = 1 ]_vars

\* C7 witness: the run has returned with two positions force-closed and an
\* earlier trade closed otherwise
C7_Witness ==
    /\ pc = "done"
    /\ Cardinality({t \in Ledger : t.exit_reason.kind = "END_OF_BACKTEST"}) = 2
    /\ \E t \in Ledger : t.exit_reason.kind # "END_OF_BACKTEST"

(***************************************************************************)
(* Entry filters (_check_new_entries and the _check_*_filter methods).     *)
(* The indicator arithmetic over the OHLCV window is not modelled: what a  *)
(* filter reads from it is an input.  An indicator value is <<>> when it   *)
(* is NaN and <<x>> when it is the number x; a comparison with NaN is      *)
(* false, as in Python.  bars is len(historical_data), the rows of the     *)
(* symbol dated at or before the current date.  A symbol that reaches the  *)
(* chain has a price, so it is in stock_data.                              *)
(***************************************************************************)
IsNaN(v) == v = <<>>

Lt(a, b) == ~IsNaN(a) /\ ~IsNaN(b) /\ a[1] < b[1]

Gt(a, b) == Lt(b, a)

Le(a, b) == ~IsNaN(a) /\ ~IsNaN(b) /\ a[1] <= b[1]

Ge(a, b) == Le(b, a)

\* the filters in the order _check_new_entries applies them
FilterOrder ==
    << "trend", "rsi", "stochastic", "supertrend", "vwap",
       "adx", "bollinger", "macd", "williams" >>

FilterNames == SeqToSet(FilterOrder)

\* the filter fields of BacktestConfig, with the defaults of the dataclass
BaseFilterConfig ==
    [ use_trend_filter      |-> FALSE,
      trend_filter_mode     |-> "NONE",
      use_rsi_filter        |-> FALSE,
      rsi_period            |-> 14,
      rsi_min               |-> 40,
      rsi_max               |-> 70,
      use_stochastic_filter |-> FALSE,
      stochastic_k_period   |-> 14,
      stochastic_d_period   |-> 3,
      stochastic_smoothing  |-> 3,
      stochastic_overbought |-> 70,
      use_supertrend_filter |-> FALSE,
      supertrend_period     |-> 10,
      use_vwap_filter       |-> FALSE,
      vwap_mode             |-> "ABOVE",
      vwap_period           |-> 1,
      use_adx_filter        |-> FALSE,
      adx_period            |-> 14,
      adx_threshold         |-> 25,
      adx_require_bullish   |-> TRUE,
      use_williams_filter   |-> FALSE,
      williams_period       |-> 14,
      williams_overbought   |-> -20,
      use_macd_filter       |-> FALSE,
      macd_slow             |-> 26,
      macd_signal           |-> 9,
      macd_mode             |-> "BULLISH",
      use_bollinger_filter  |-> FALSE,
      bollinger_period      |-> 20 ]

\* the EMA mode _check_multi_timeframe_trend_filter works with
TrendMode(cfg) ==
    IF cfg.trend_filter_mode = "NONE" /\ cfg.use_trend_filter
    THEN "BEARISH"
    ELSE cfg.trend_filter_mode

LongModes == {"GOLDEN_CROSS", "DEATH_CROSS", "BULLISH_ALIGNED"}

\* _check_multi_timeframe_trend_filter; v = [ema_20, ema_50, ema_200]
CheckTrendFilter(cfg, bars, v) ==
    LET mode == TrendMode(cfg)
    IN  IF mode = "NONE" THEN TRUE
        ELSE IF mode \in LongModes /\ bars < 200 THEN TRUE
        ELSE IF bars < 50 THEN TRUE
        ELSE CASE mode = "BEARISH" -> Lt(v.ema_20, v.ema_50)
               [] mode = "BULLISH" -> Gt(v.ema_20, v.ema_50)
               [] mode = "GOLDEN_CROSS" -> Gt(v.ema_50, v.ema_200)
               [] mode = "DEATH_CROSS" -> Lt(v.ema_50, v.ema_200)
               [] mode = "BULLISH_ALIGNED" ->
                      Gt(v.ema_20, v.ema_50) /\ Gt(v.ema_50, v.ema_200)
               [] OTHER -> TRUE

\* _check_rsi_filter; v = [rsi]
CheckRsiFilter(cfg, bars, v) ==
    IF bars < cfg.rsi_period + 10 THEN TRUE
    ELSE IF IsNaN(v.rsi) THEN TRUE
    ELSE Le(<<cfg.rsi_min>>, v.rsi) /\ Le(v.rsi, <<cfg.rsi_max>>)

\* _check_stochastic_filter; v = [k, prev_k, d, prev_d]
CheckStochasticFilter(cfg, bars, v) ==
    IF bars < cfg.stochastic_k_period + cfg.stochastic_smoothing
                + cfg.stochastic_d_period + 5 THEN TRUE
    ELSE IF IsNaN(v.k) \/ IsNaN(v.prev_k) \/ IsNaN(v.d) \/ IsNaN(v.prev_d) THEN TRUE
    ELSE LET was_overbought ==
                 \/ Gt(v.prev_k, <<cfg.stochastic_overbought>>)
                 \/ Gt(v.k, <<cfg.stochastic_overbought - 10>>)
             bearish_crossover == Ge(v.prev_k, v.prev_d) /\ Lt(v.k, v.d)
         IN  was_overbought /\ bearish_crossover

\* _check_supertrend_filter; v = [supertrend, trend]
CheckSupertrendFilter(cfg, bars, v) ==
    IF bars < cfg.supertrend_period + 10 THEN TRUE
    ELSE IF IsNaN(v.supertrend) \/ IsNaN(v.trend) THEN TRUE
    ELSE v.trend = <<1>>

\* _check_vwap_filter; v = [has_volume, close, vwap]
CheckVwapFilter(cfg, bars, v) ==
    IF bars < (IF cfg.vwap_period > 5 THEN cfg.vwap_period ELSE 5) THEN TRUE
    ELSE IF ~v.has_volume THEN TRUE
    ELSE IF IsNaN(v.close) \/ IsNaN(v.vwap) THEN TRUE
    ELSE CASE cfg.vwap_mode = "ABOVE" -> Gt(v.close, v.vwap)
           [] cfg.vwap_mode = "BELOW" -> Lt(v.close, v.vwap)
           [] OTHER -> TRUE

\* _check_adx_filter; v = [adx, plus_di, minus_di]
CheckAdxFilter(cfg, bars, v) ==
    IF bars < 2 * cfg.adx_period + 10 THEN TRUE
    ELSE IF IsNaN(v.adx) \/ IsNaN(v.plus_di) \/ IsNaN(v.minus_di) THEN TRUE
    ELSE LET adx_condition == Gt(v.adx, <<cfg.adx_threshold>>)
         IN  IF cfg.adx_require_bullish
             THEN adx_condition /\ Gt(v.plus_di, v.minus_di)
             ELSE adx_condition

\* _check_bollinger_filter; v = [close, upper, middle]
CheckBollingerFilter(cfg, bars, v) ==
    IF bars < cfg.bollinger_period + 5 THEN TRUE
    ELSE IF IsNaN(v.upper) \/ IsNaN(v.middle) THEN TRUE
    ELSE Lt(v.close, v.upper)

\* _check_macd_filter; v = [macd, signal, histogram, prev_histogram]
CheckMacdFilter(cfg, bars, v) ==
    IF bars < cfg.macd_slow + cfg.macd_signal + 5 THEN TRUE
    ELSE IF IsNaN(v.macd) \/ IsNaN(v.signal) \/ IsNaN(v.histogram) THEN TRUE
    ELSE CASE cfg.macd_mode = "BULLISH" -> Gt(v.macd, v.signal)
           [] cfg.macd_mode = "REVERSAL" ->
                  \/ Gt(v.prev_histogram, <<0>>) /\ Lt(v.histogram, v.prev_histogram)
                  \/ Lt(v.histogram, <<0>>) /\ Ge(v.prev_histogram, <<0>>)
           [] OTHER -> TRUE

\* _check_williams_filter; v = [wr, prev_wr]
CheckWilliamsFilter(cfg, bars, v) ==
    IF bars < cfg.williams_period + 5 THEN TRUE
    ELSE IF IsNaN(v.wr) \/ IsNaN(v.prev_wr) THEN TRUE
    ELSE LET was_overbought ==
                 \/ Gt(v.prev_wr, <<cfg.williams_overbought>>)
                 \/ Gt(v.wr, <<cfg.williams_overbought - 10>>)
             momentum_turning == Lt(v.wr, v.prev_wr)
         IN  was_overbought /\ momentum_turning

\* the call of one filter's method
CheckFilter(cfg, f, bars, v) ==
    CASE f = "trend" -> CheckTrendFilter(cfg, bars, v)
      [] f = "rsi" -> CheckRsiFilter(cfg, bars, v)
      [] f = "stochastic" -> CheckStochasticFilter(cfg, bars, v)
      [] f = "supertrend" -> CheckSupertrendFilter(cfg, bars, v)
      [] f = "vwap" -> CheckVwapFilter(cfg, bars, v)
      [] f = "adx" -> CheckAdxFilter(cfg, bars, v)
      [] f = "bollinger" -> CheckBollingerFilter(cfg, bars, v)
      [] f = "macd" -> CheckMacdFilter(cfg, bars, v)
      [] f = "williams" -> CheckWilliamsFilter(cfg, bars, v)

\* FilterCalled that ignores the use_*_filter switches
FilterCalled_Always(cfg, f) == TRUE

\* whether _check_new_entries calls the filter: the trend filter is called on
\* every entry, the others behind their use_*_filter switch
FilterCalled(cfg, f) ==
    CASE f = "trend" -> TRUE
      [] f = "rsi" -> cfg.use_rsi_filter
      [] f = "stochastic" -> cfg.use_stochastic_filter
      [] f = "supertrend" -> cfg.use_supertrend_filter
      [] f = "vwap" -> cfg.use_vwap_filter
      [] f = "adx" -> cfg.use_adx_filter
      [] f = "bollinger" -> cfg.use_bollinger_filter
      [] f = "macd" -> cfg.use_macd_filter
      [] f = "williams" -> cfg.use_williams_filter

\* The filter part of the loop body of _check_new_entries, with the filters
\* applied in the given order: the first called filter that fails ends it
\* ("continue"), the later ones are not called.
RECURSIVE ApplyFilters(_, _, _, _)
ApplyFilters(cfg, order, bars, readings) ==
    IF order = <<>> THEN TRUE
    ELSE IF FilterCalled(cfg, Head(order))
            /\ ~CheckFilter(cfg, Head(order), bars, readings[Head(order)])
    THEN FALSE
    ELSE ApplyFilters(cfg, Tail(order), bars, readings)

\* the filter chain as _check_new_entries runs it
FilterChain(cfg, bars, readings) == ApplyFilters(cfg, FilterOrder, bars, readings)

(***************************************************************************)
(* Inputs of the filter chain.                                             *)
(***************************************************************************)
\* len(historical_data): below every warm-up but VWAP's, at the warm-up of the RSI
\* filter, above all but the trend filter's, above all
BarCounts == {4, 5, 24, 45, 250}

\* what each filter can read from its indicator
Readings(f) ==
    CASE f = "trend" ->
            << [ema_20 |-> <<99>>, ema_50 |-> <<100>>, ema_200 |-> <<101>>],
               [ema_20 |-> <<101>>, ema_50 |-> <<100>>, ema_200 |-> <<99>>],
               [ema_20 |-> <<100>>, ema_50 |-> <<100>>, ema_200 |-> <<100>>],
               [ema_20 |-> <<101>>, ema_50 |-> <<100>>, ema_200 |-> <<102>>],
               [ema_20 |-> <<>>, ema_50 |-> <<>>, ema_200 |-> <<>>] >>
      [] f = "rsi" ->
            << [rsi |-> <<55>>], [rsi |-> <<80>>], [rsi |-> <<40>>],
               [rsi |-> <<70>>], [rsi |-> <<30>>], [rsi |-> <<>>] >>
      [] f = "stochastic" ->
            << [k |-> <<65>>, prev_k |-> <<80>>, d |-> <<70>>, prev_d |-> <<75>>],
               [k |-> <<40>>, prev_k |-> <<50>>, d |-> <<45>>, prev_d |-> <<45>>],
               [k |-> <<75>>, prev_k |-> <<80>>, d |-> <<70>>, prev_d |-> <<75>>],
               [k |-> <<65>>, prev_k |-> <<70>>, d |-> <<70>>, prev_d |-> <<70>>],
               [k |-> <<65>>, prev_k |-> <<>>, d |-> <<70>>, prev_d |-> <<>>],
               [k |-> <<>>, prev_k |-> <<>>, d |-> <<>>, prev_d |-> <<>>] >>
      [] f = "supertrend" ->
            << [supertrend |-> <<95>>, trend |-> <<1>>],
               [supertrend |-> <<105>>, trend |-> <<-1>>],
               [supertrend |-> <<>>, trend |-> <<>>] >>
      [] f = "vwap" ->
            << [has_volume |-> TRUE, close |-> <<100>>, vwap |-> <<95>>],
               [has_volume |-> TRUE, close |-> <<100>>, vwap |-> <<105>>],
               [has_volume |-> TRUE, close |-> <<100>>, vwap |-> <<100>>],
               [has_volume |-> TRUE, close |-> <<100>>, vwap |-> <<>>],
               [has_volume |-> FALSE, close |-> <<100>>, vwap |-> <<>>] >>
      [] f = "adx" ->
            << [adx |-> <<30>>, plus_di |-> <<25>>, minus_di |-> <<15>>],
               [adx |-> <<20>>, plus_di |-> <<25>>, minus_di |-> <<15>>],
               [adx |-> <<30>>, plus_di |-> <<15>>, minus_di |-> <<25>>],
               [adx |-> <<25>>, plus_di |-> <<25>>, minus_di |-> <<15>>],
               [adx |-> <<>>, plus_di |-> <<>>, minus_di |-> <<>>] >>
      [] f = "bollinger" ->
            << [close |-> <<100>>, upper |-> <<110>>, middle |-> <<100>>],
               [close |-> <<110>>, upper |-> <<110>>, middle |-> <<100>>],
               [close |-> <<100>>, upper |-> <<>>, middle |-> <<>>] >>
      [] f = "macd" ->
            << [macd |-> <<2>>, signal |-> <<1>>, histogram |-> <<1>>,
                prev_histogram |-> <<2>>],
               [macd |-> <<1>>, signal |-> <<2>>, histogram |-> <<-1>>,
                prev_histogram |-> <<-2>>],
               [macd |-> <<2>>, signal |-> <<1>>, histogram |-> <<1>>,
                prev_histogram |-> <<0>>],
               [macd |-> <<1>>, signal |-> <<2>>, histogram |-> <<-1>>,
                prev_histogram |-> <<1>>],
               [macd |-> <<0>>, signal |-> <<0>>, histogram |-> <<0>>,
                prev_histogram |-> <<>>],
               [macd |-> <<>>, signal |-> <<>>, histogram |-> <<>>,
                prev_histogram |-> <<>>] >>
      [] f = "williams" ->
            << [wr |-> <<-30>>, prev_wr |-> <<-10>>],
               [wr |-> <<-50>>, prev_wr |-> <<-40>>],
               [wr |-> <<-10>>, prev_wr |-> <<-30>>],
               [wr |-> <<-30>>, prev_wr |-> <<>>],
               [wr |-> <<>>, prev_wr |-> <<>>] >>

\* Readings of all filters on one date: every filter at its first reading, one
\* filter at any of its readings, or two filters at their second reading
ReadingVectors ==
    UNION { { [g \in FilterNames |->
                 IF g = f THEN Readings(f)[n] ELSE Readings(g)[1]] :
              n \in 1..Len(Readings(f)) } : f \in FilterNames }
    \cup { [g \in FilterNames |->
              IF g \in {f1, f2} THEN Readings(g)[2] ELSE Readings(g)[1]] :
           f1 \in FilterNames, f2 \in FilterNames }

\* the mode fields of a configuration
ModeVariants ==
    { [trend |-> "BEARISH", legacy |-> FALSE, vwap |-> "ABOVE", macd |-> "BULLISH",
       bullish |-> TRUE],
      [trend |-> "BULLISH", legacy |-> FALSE, vwap |-> "BELOW", macd |-> "REVERSAL",
       bullish |-> FALSE],
      [trend |-> "GOLDEN_CROSS", legacy |-> TRUE, vwap |-> "TWAP", macd |-> "ZERO_LINE",
       bullish |-> TRUE],
      [trend |-> "DEATH_CROSS", legacy |-> FALSE, vwap |-> "ABOVE", macd |-> "REVERSAL",
       bullish |-> TRUE],
      [trend |-> "BULLISH_ALIGNED", legacy |-> FALSE, vwap |-> "BELOW",
       macd |-> "BULLISH", bullish |-> FALSE],
      [trend |-> "NONE", legacy |-> TRUE, vwap |-> "ABOVE", macd |-> "BULLISH",
       bullish |-> TRUE],
      [trend |-> "SIDEWAYS", legacy |-> FALSE, vwap |-> "ABOVE", macd |-> "BULLISH",
       bullish |-> TRUE] }

\* the sets of filters a configuration switches on: none, one, two, or all
EnabledSets ==
    { e \in SUBSET FilterNames : Cardinality(e) <= 2 \/ e = FilterNames }

FilterConfig(enabled, m) ==
    [BaseFilterConfig EXCEPT
        !.trend_filter_mode     = IF "trend" \in enabled THEN m.trend ELSE "NONE",
        !.use_trend_filter      = "trend" \in enabled /\ m.legacy,
        !.use_rsi_filter        = "rsi" \in enabled,
        !.use_stochastic_filter = "stochastic" \in enabled,
        !.use_supertrend_filter = "supertrend" \in enabled,
        !.use_vwap_filter       = "vwap" \in enabled,
        !.vwap_mode             = m.vwap,
        !.use_adx_filter        = "adx" \in enabled,
        !.adx_require_bullish   = m.bullish,
        !.use_bollinger_filter  = "bollinger" \in enabled,
        !.use_macd_filter       = "macd" \in enabled,
        !.macd_mode             = m.macd,
        !.use_williams_filter   = "williams" \in enabled]

FilterConfigs == { FilterConfig(e, m) : e \in EnabledSets, m \in ModeVariants }

\* an engine that runs no backtest
InitNoRun ==
    /\ config = BaseConfig
    /\ pc = "idle"
    /\ current_date = 0
    /\ day_count = 0
    /\ prices = [s \in Symbols |-> <<>>]
    /\ positions = <<>>
    /\ trades = <<>>
    /\ cash = 0
    /\ equity_curve = NoEquity
    /\ opened = 0

InitFilters ==
    /\ InitNoRun
    /\ runs = Idle
    /\ calls = Idle
    /\ filters \in { [pc |-> "ready", config |-> c, bars |-> b, readings |-> r,
                      passed |-> TRUE] :
                     c \in FilterConfigs, b \in BarCounts, r \in ReadingVectors }

\* the filter chain of _check_new_entries for one symbol on one entry day
DoFilterChain ==
    /\ filters.pc = "ready"
    /\ filters' = [filters EXCEPT
                      !.pc = "done",
                      !.passed = FilterChain(filters.config, filters.bars,
                                             filters.readings)]
    /\ UNCHANGED <<engineVars, runs, calls>>

NextFilters == DoFilterChain

SpecFilters == InitFilters /\ [][NextFilters]_vars

(***************************************************************************)
(* Properties of the filter chain.                                         *)
(***************************************************************************)
\* a filter is enabled by its use_*_filter switch; the trend filter by a mode
\* other than NONE or by the legacy switch
IsEnabled(cfg, f) ==
    \/ f = "trend" /\ (cfg.trend_filter_mode # "NONE" \/ cfg.use_trend_filter)
    \/ f = "rsi" /\ cfg.use_rsi_filter
    \/ f = "stochastic" /\ cfg.use_stochastic_filter
    \/ f = "supertrend" /\ cfg.use_supertrend_filter
    \/ f = "vwap" /\ cfg.use_vwap_filter
    \/ f = "adx" /\ cfg.use_adx_filter
    \/ f = "bollinger" /\ cfg.use_bollinger_filter
    \/ f = "macd" /\ cfg.use_macd_filter
    \/ f = "williams" /\ cfg.use_williams_filter

\* what the filter answers for the inputs of the state
Answer(f) == CheckFilter(filters.config, f, filters.bars, filters.readings[f])

\* orders of evaluation: the source order rotated, reversed, and with two
\* neighbours exchanged
NumFilters == Len(FilterOrder)

Rotated(k) == [i \in 1..NumFilters |-> FilterOrder[((i + k - 1) % NumFilters) + 1]]

Exchanged(k) ==
    [i \in 1..NumFilters |->
        IF i = k THEN FilterOrder[k + 1]
        ELSE IF i = k + 1 THEN FilterOrder[k]
        ELSE FilterOrder[i]]

Reversed == [i \in 1..NumFilters |-> FilterOrder[NumFilters + 1 - i]]

Orders ==
    {Rotated(k) : k \in 0..(NumFilters - 1)}
    \cup {Exchanged(k) : k \in 1..(NumFilters - 1)}
    \cup {Reversed}

\* C8: the chain lets the entry pass exactly when every enabled filter answers
\* true; the readings of a disabled filter do not change the result; and the
\* result is the same in every order of evaluation.
C8_ChainIsConjunction ==
    filters.pc = "done" =>
        /\ filters.passed <=>
              \A f \in FilterNames : IsEnabled(filters.config, f) => Answer(f)
        /\ \A f \in FilterNames :
              ~IsEnabled(filters.config, f) =>
                  \A n \in 1..Len(Readings(f)) :
                      FilterChain(filters.config, filters.bars,
                                  [filters.readings EXCEPT ![f] = Readings(f)[n]])
                          = filters.passed
        /\ \A order \in Orders :
              ApplyFilters(filters.config, order, filters.bars, filters.readings)
                  = filters.passed

\* C8 witness: the entry passed with two filters enabled, while a disabled filter
\* would have answered false
C8_Witness ==
    /\ filters.pc = "done"
    /\ filters.passed
    /\ Cardinality({f \in FilterNames : IsEnabled(filters.config, f)}) = 2
    /\ \E f \in FilterNames : ~IsEnabled(filters.config, f) /\ ~Answer(f)

\* the rows a filter needs before it computes its indicator
WarmUp(cfg, f) ==
    CASE f = "trend" -> IF TrendMode(cfg) \in LongModes THEN 200 ELSE 50
      [] f = "rsi" -> cfg.rsi_period + 10
      [] f = "stochastic" -> cfg.stochastic_k_period + cfg.stochastic_smoothing
                             + cfg.stochastic_d_period + 5
      [] f = "supertrend" -> cfg.supertrend_period + 10
      [] f = "vwap" -> IF cfg.vwap_period > 5 THEN cfg.vwap_period ELSE 5
      [] f = "adx" -> 2 * cfg.adx_period + 10
      [] f = "bollinger" -> cfg.bollinger_period + 5
      [] f = "macd" -> cfg.macd_slow + cfg.macd_signal + 5
      [] f = "williams" -> cfg.williams_period + 5

\* some indicator value the filter's test reads is NaN (or cannot be computed)
ReadsNaN(cfg, f, v) ==
    CASE f = "trend" ->
            \/ TrendMode(cfg) \in {"BEARISH", "BULLISH", "BULLISH_ALIGNED"}
                  /\ (IsNaN(v.ema_20) \/ IsNaN(v.ema_50))
            \/ TrendMode(cfg) \in LongModes
                  /\ (IsNaN(v.ema_50) \/ IsNaN(v.ema_200))
      [] f = "rsi" -> IsNaN(v.rsi)
      [] f = "stochastic" ->
            IsNaN(v.k) \/ IsNaN(v.prev_k) \/ IsNaN(v.d) \/ IsNaN(v.prev_d)
      [] f = "supertrend" -> IsNaN(v.supertrend) \/ IsNaN(v.trend)
      [] f = "vwap" -> ~v.has_volume \/ IsNaN(v.vwap)
      [] f = "adx" -> IsNaN(v.adx) \/ IsNaN(v.plus_di) \/ IsNaN(v.minus_di)
      [] f = "bollinger" -> IsNaN(v.upper)
      [] f = "macd" ->
            \/ cfg.macd_mode = "BULLISH" /\ (IsNaN(v.macd) \/ IsNaN(v.signal))
            \/ cfg.macd_mode = "REVERSAL"
                  /\ (IsNaN(v.histogram) \/ IsNaN(v.prev_histogram))
      [] f = "williams" -> IsNaN(v.wr) \/ IsNaN(v.prev_wr)

\* the filter has too short a history or reads an indeterminate value
Degraded(f) ==
    \/ filters.bars < WarmUp(filters.config, f)
    \/ ReadsNaN(filters.config, f, filters.readings[f])

\* C9: every enabled filter whose history is shorter than its warm-up, or whose
\* indicator value is NaN, answers pass, so an entry whose enabled filters are
\* all in that case is allowed.
C9_PermissiveDegradation ==
    filters.pc = "done" =>
        /\ \A f \in FilterNames :
              IsEnabled(filters.config, f) /\ Degraded(f) => Answer(f)
        /\ (\A f \in FilterNames : IsEnabled(filters.config, f) => Degraded(f))
              => filters.passed

(***************************************************************************)
(* Repeated runs of run_backtest on one configuration and one set of price *)
(* tables.  A table maps each of its dates to what _get_price returns on   *)
(* it.  _get_trading_dates collects the dates in a Python set; the order   *)
(* in which the set is iterated is the build's choice, given here as an    *)
(* enumeration of the dates.                                               *)
(***************************************************************************)
\* insert a value into an ascending sequence
RECURSIVE Insert(_, _)
Insert(x, sorted) ==
    IF sorted = <<>> THEN <<x>>
    ELSE IF x <= Head(sorted) THEN <<x>> \o sorted
    ELSE <<Head(sorted)>> \o Insert(x, Tail(sorted))

\* sorted(filtered)
RECURSIVE Sorted(_)
Sorted(seq) == IF seq = <<>> THEN <<>> ELSE Insert(Head(seq), Sorted(Tail(seq)))

\* GetTradingDates that returns the dates as the set happens to list them
GetTradingDates_Unsorted(enumeration) == enumeration

\* _get_trading_dates: the dates of the tables within the date range, ascending
GetTradingDates(enumeration) == Sorted(enumeration)

\* _process_day, with the entry filters off and no indicator-based strike method
ProcessDay(e, cfg, date, day_prices) ==
    LET expired == CheckExpiries(e, date, day_prices)
        exited  == IF RunsEarlyExits(cfg)
                   THEN CheckEarlyExits(expired, cfg, date, day_prices)
                   ELSE expired
        entered == CheckNewEntries(exited, cfg, date, day_prices,
                                   [s \in Symbols |-> TRUE],
                                   [s \in Symbols |-> NoIndicators])
    IN  UpdateEquity(entered, date, day_prices)

\* insert an entry into an equity series ascending by date
RECURSIVE InsertByDate(_, _)
InsertByDate(x, sorted) ==
    IF sorted = <<>> THEN <<x>>
    ELSE IF x.date <= Head(sorted).date THEN <<x>> \o sorted
    ELSE <<Head(sorted)>> \o InsertByDate(x, Tail(sorted))

\* equity_series.sort_index() of _compile_results
RECURSIVE SortIndex(_)
SortIndex(curve) ==
    IF curve = <<>> THEN <<>> ELSE InsertByDate(Head(curve), SortIndex(Tail(curve)))

\* the dates of the price tables of the repeated runs
RunDates == {3, 4, 11, 25}

\* the tables: "A" closes anywhere in PriceSet on each date, "B" is flat
Tables ==
    { [d \in RunDates |-> [A |-> <<a[d]>>, B |-> <<10000>>]] : a \in [RunDates -> PriceSet] }

\* the orders in which a set of dates can be listed
Enumerations(dates) ==
    { s \in [1..Cardinality(dates) -> dates] :
        \A i, j \in 1..Cardinality(dates) : s[i] = s[j] => i = j }

\* the configurations of the repeated runs
RunConfigs ==
    { BaseConfig,
      [BaseConfig EXCEPT !.exit_strategy = "PROFIT_TARGET_AND_STOP_LOSS",
                         !.allow_sl_adjustment = TRUE] }

\* the results run_backtest returns: the trade ledger and the equity series
Results(e, curve) == [trades |-> e.trades, equity_curve |-> SortIndex(curve)]

\* dates are the trading dates still to process, engine the engine instance of the
\* run under way, curve its self.equity_curve in insertion order
InitRuns ==
    /\ InitNoRun
    /\ filters = Idle
    /\ calls = Idle
    /\ \E c \in RunConfigs, t \in Tables, s1 \in Enumerations(RunDates) :
          runs = [pc |-> "start", run |-> 1, config |-> c, table |-> t,
                  first |-> s1,
                  second |-> [i \in 1..Len(s1) |-> s1[Len(s1) + 1 - i]],
                  dates |-> <<>>, engine |-> NewEngine(c), curve |-> <<>>,
                  result1 |-> <<>>, result2 |-> <<>>]

\* run_backtest on a fresh engine: the trading dates are collected and sorted
StartRun ==
    /\ runs.pc = "start"
    /\ runs' = [runs EXCEPT
                  !.pc = "day",
                  !.dates = GetTradingDates(IF runs.run = 1 THEN runs.first
                                            ELSE runs.second),
                  !.engine = NewEngine(runs.config),
                  !.curve = <<>>]
    /\ UNCHANGED <<engineVars, filters, calls>>

\* the day loop of run_backtest: one _process_day
RunDay ==
    /\ runs.pc = "day"
    /\ runs.dates # <<>>
    /\ LET date  == Head(runs.dates)
           after == ProcessDay(runs.engine, runs.config, date, runs.table[date])
       IN  runs' = [runs EXCEPT !.dates = Tail(runs.dates),
                                !.engine = after,
                                !.curve = Append(runs.curve, after.equity_curve)]
    /\ UNCHANGED <<engineVars, filters, calls>>

\* run_backtest after the loop: _close_all_positions(end_date) and _compile_results;
\* end_date is the last date of the tables.  The second run follows the first.
FinishRun ==
    /\ runs.pc = "day"
    /\ runs.dates = <<>>
    /\ LET end_date == SeqMax(runs.first)
           closed   == CloseAllPositions(runs.engine, end_date, runs.table[end_date])
           results  == Results(closed, runs.curve)
       IN  runs' = IF runs.run = 1
                   THEN [runs EXCEPT !.pc = "start", !.run = 2, !.engine = closed,
                                     !.result1 = results]
                   ELSE [runs EXCEPT !.pc = "done", !.engine = closed,
                                     !.result2 = results]
    /\ UNCHANGED <<engineVars, filters, calls>>

NextRuns == StartRun \/ RunDay \/ FinishRun

SpecRuns == InitRuns /\ [][NextRuns]_vars

\* C10: two runs of the same configuration on the same price tables return the
\* same trade ledger, trade for trade in the same order, and the same equity series.
C10_Determinism ==
    runs.pc = "done" =>
        /\ runs.result1.trades = runs.result2.trades
        /\ runs.result1.equity_curve = runs.result2.equity_curve

\* C10 witness: both runs are done, the date set was listed in two different
\* orders, and the ledger holds a roll-up closed by its stop loss and two more trades
C10_Witness ==
    /\ runs.pc = "done"
    /\ runs.first # runs.second
    /\ Len(runs.result1.trades) >= 3
    /\ \E i \in 1..Len(runs.result1.trades) :
          runs.result1.trades[i].adjustments = 1

\* calculate_d1_d2 divides by volatility * sqrt(time_to_expiry).  The volatility is
\* a numpy float: dividing by zero gives inf or NaN (with a warning), no exception.
D1OfVolatility(volatility) == IF volatility = 0 THEN "nonfinite" ELSE "finite"

\* single calls: the entry volatility of a configuration on a history
VolatilityCalls ==
    { [pc |-> "ready", op |-> "entry_volatility",
       config |-> [BaseConfig EXCEPT !.strike_method = m], rows |-> r, hv |-> h] :
      m \in StrikeMethods, r \in RowCounts, h \in RealizedVols }

\* _open_position computes iv and prices the option with it
DoEntryVolatility ==
    /\ calls.pc = "ready"
    /\ calls.op = "entry_volatility"
    /\ LET iv == EntryVolatility(calls.config, calls.rows, calls.hv)
       IN  calls' = [pc |-> "done", op |-> calls.op, config |-> calls.config,
                     rows |-> calls.rows, hv |-> calls.hv,
                     volatility |-> iv, d1 |-> D1OfVolatility(iv)]
    /\ UNCHANGED <<engineVars, filters, runs>>

InitVolatility ==
    /\ InitNoRun
    /\ filters = Idle
    /\ runs = Idle
    /\ calls \in VolatilityCalls

NextVolatility == DoEntryVolatility

SpecVolatility == InitVolatility /\ [][NextVolatility]_vars

\* C11: every volatility passed to the pricing model is strictly positive, for
\* every strike method, so that the division in the pricing formulas is by a
\* non-zero number.
C11_PositiveVolatility ==
    (calls.pc = "done" /\ calls.op = "entry_volatility") =>
        /\ calls.volatility > 0
        /\ calls.d1 = "finite"

\* the option P&L of a position on the current date: premium received minus the
\* current option value
OptionPnl(p) == p.premium_received - OptionNow(p)

\* C12: under PROFIT_TARGET or PROFIT_TARGET_AND_STOP_LOSS, a position whose option
\* P&L on a day is at least profit_target_pct percent of the premium received
\* (boundary included), with no DTE exit and no trailing stop firing, is closed
\* that day with a PROFIT_TARGET reason.
C12_ProfitTargetCloses ==
    [][ ( /\ pc = "exits"
          /\ config.exit_strategy \in {"PROFIT_TARGET", "PROFIT_TARGET_AND_STOP_LOSS"} ) =>
          \A p \in Checked :
              ( /\ OptionPnl(p) * 100 >= config.profit_target_pct * p.premium_received
                /\ ~(config.use_dte_exit /\ DteExitHolds(p))
                /\ ~(config.use_trailing_stop /\ TrailingStopHolds(p)) ) =>
                  /\ StillOpen(p) = {}
                  /\ \E t \in ClosedNow(p) :
                        /\ t.exit_date = current_date
                        /\ t.exit_reason.kind = "PROFIT_TARGET"
      ]_vars

\* C12 witness: a position was closed by the profit target on the boundary, its
\* option P&L exactly profit_target_pct percent of the premium
C12_Witness ==
    /\ pc = "entries"
    /\ config.exit_strategy \in {"PROFIT_TARGET", "PROFIT_TARGET_AND_STOP_LOSS"}
    /\ \E t \in Ledger :
          /\ t.exit_date = current_date
          /\ t.exit_reason.kind = "PROFIT_TARGET"
          /\ (t.premium_received - t.option_exit_price) * 100
                = config.profit_target_pct * t.premium_received

(***************************************************************************)
(* A run on a single symbol whose price table is flat: "B" closes at 10000 *)
(* on every row.  The table may hold rows dated before the first trading   *)
(* date of the run; its rows may be a day, a week or four weeks apart.     *)
(***************************************************************************)
\* DELTA_30, HOLD_TO_EXPIRY, no entry filters, one symbol
FlatConfig == [BaseConfig EXCEPT !.symbols = <<"B">>]

\* first trading dates of the run (2024-01-03 .. 2024-01-05)
FlatStartDates == {3, 4, 5}

\* calendar-day gaps between two consecutive rows of the table
FlatGaps == {1, 7, 28}

\* rows of the table dated before the first trading date
FlatHistories == {0, 10}

InitFlat ==
    /\ config = FlatConfig
    /\ pc = "next"
    /\ current_date = 0
    /\ day_count = 0
    /\ prices = [s \in Symbols |-> <<>>]
    /\ positions = NewEngine(config).positions
    /\ trades = NewEngine(config).trades
    /\ cash = NewEngine(config).cash
    /\ equity_curve = NewEngine(config).equity_curve
    /\ opened = NewEngine(config).opened
    /\ filters = Idle
    /\ calls = Idle
    /\ runs \in {[pc |-> "flat", rows_before |-> r] : r \in FlatHistories}

\* the day loop reads the next row of the flat table
FlatNextDay ==
    /\ pc = "next"
    /\ day_count < MaxDays
    /\ \E d \in (IF day_count = 0 THEN FlatStartDates
                 ELSE {current_date + g : g \in FlatGaps}) :
          /\ d <= LastDate
          /\ current_date' = d
    /\ prices' = [s \in Symbols |-> IF s = "B" THEN <<10000>> ELSE <<>>]
    /\ day_count' = day_count + 1
    /\ pc' = "expiries"
    /\ UNCHANGED <<config, positions, trades, cash, equity_curve, opened, filters, runs, calls>>

\* _process_day step 3 on the flat table: the volatility is estimated from the rows
\* dated at or before the current date, whose log returns are all 0
FlatCheckNewEntries ==
    /\ pc = "entries"
    /\ LET ind == [FlatIndicators EXCEPT !.rows = runs.rows_before + day_count,
                                         !.hv = 0]
       IN  Becomes(CheckNewEntries(Engine, config, current_date, prices,
                                   [s \in Symbols |-> TRUE], [s \in Symbols |-> ind]))
    /\ pc' = "equity"
    /\ UNCHANGED <<config, current_date, day_count, prices, filters, runs, calls>>

NextFlat ==
    \/ FlatNextDay
    \/ DoCheckExpiries
    \/ DoCheckEarlyExits
    \/ FlatCheckNewEntries
    \/ DoUpdateEquity
    \/ Finish

SpecFlat == InitFlat /\ [][NextFlat]_vars

\* the positions and trades after a step
Entered == {positions'[i] : i \in 1..Len(positions')} \cup {trades'[i] : i \in 1..Len(trades')}

\* C13 part: no position of the flat run is ever settled ASSIGNED; every trade is
\* settled EXPIRY (or closed by the end of the run).
C13_NeverAssigned ==
    \A t \in Ledger : t.exit_reason.kind \in {"EXPIRY", "END_OF_BACKTEST"}

\* C13 part: the equity curve of the flat run never decreases.
C13_EquityMonotone ==
    [][ (pc = "equity" /\ equity_curve # NoEquity) =>
            equity_curve'.value >= equity_curve.value ]_vars

\* C13 part: exactly one position is opened per monthly cycle: the entry step of
\* an entry day leaves the symbol held, and no two positions are opened in the
\* same month.
C13_OnePerCycle ==
    [][ /\ (pc = "entries" /\ IsEntryDay(current_date)) => HasPosition(positions', "B")
        /\ \A p, q \in Entered : Month(p.entry_date) = Month(q.entry_date) => p.id = q.id
      ]_vars

\* C13: for a single symbol with a flat price series, DELTA_30, HOLD_TO_EXPIRY and
\* no filters, exactly one position is opened per monthly cycle, each settles
\* EXPIRY and never ASSIGNED, and the equity curve never decreases.
C13_FlatSeries ==
    [][ /\ \A t \in Entered : "exit_reason" \in DOMAIN t =>
                t.exit_reason.kind \in {"EXPIRY", "END_OF_BACKTEST"}
        /\ (pc = "equity" /\ equity_curve # NoEquity) =>
                equity_curve'.value >= equity_curve.value
        /\ (pc = "entries" /\ IsEntryDay(current_date)) => HasPosition(positions', "B")
        /\ \A p, q \in Entered : Month(p.entry_date) = Month(q.entry_date) => p.id = q.id
      ]_vars

\* C14: every trade of the ledger has exit_date >= entry_date and
\* expiry_date >= entry_date, the trades closed at the end of the run and the
\* trades of rolled-up positions included.
C14_TradeDatesOrdered ==
    \A t \in Ledger :
        /\ t.exit_date >= t.entry_date
        /\ t.expiry_date >= t.entry_date

\* C14 witness: the run ended on an entry day: a position was closed
\* END_OF_BACKTEST on the day it was opened, beside the trade of a rolled-up position
C14_Witness ==
    /\ pc = "done"
    /\ \E t \in Ledger : /\ t.exit_reason.kind = "END_OF_BACKTEST"
                         /\ t.exit_date = t.entry_date
    /\ \E t \in Ledger : t.adjustments = 1

(***************************************************************************)
(* The module-level run_backtest: it is given the strike method and the    *)
(* exit strategy as strings and builds the BacktestConfig from them.       *)
(***************************************************************************)
\* strings a request can carry: the members' values and one that is no member's
RequestedStrikeMethods == StrikeMethods \cup {"NEAREST"}

RequestedExitStrategies == ExitStrategies \cup {"TIME_STOP"}

\* Enum(value): the member with that value; ValueError when there is none
EnumByValue(value, members) ==
    IF value \in members THEN [raised |-> FALSE, member |-> value]
    ELSE [raised |-> TRUE, member |-> "ValueError"]

\* spot prices the strike of a built configuration is asked for
RequestSpots == {9500, 10000, 10500}

\* run_backtest(strike_method=..., exit_strategy=...): the configuration it builds
\* and runs, or the exception that leaves it
RequestRun(strike_method, exit_strategy) ==
    LET method   == EnumByValue(strike_method, StrikeMethods)
        strategy == EnumByValue(exit_strategy, ExitStrategies)
    IN  IF method.raised \/ strategy.raised
        THEN [raised |-> TRUE, config |-> <<>>]
        ELSE [raised |-> FALSE,
              config |-> [BaseConfig EXCEPT !.strike_method = method.member,
                                            !.exit_strategy = strategy.member]]

RequestCalls ==
    { [pc |-> "ready", op |-> "run_backtest", strike_method |-> m, exit_strategy |-> x,
       spot |-> s] :
      m \in RequestedStrikeMethods, x \in RequestedExitStrategies, s \in RequestSpots }

\* one request: the run it starts and the strike that run selects for the first
\* entry (short history, 21 days to expiry), or the exception
DoRunRequest ==
    /\ calls.pc = "ready"
    /\ calls.op = "run_backtest"
    /\ LET run == RequestRun(calls.strike_method, calls.exit_strategy)
       IN  calls' = [pc |-> "done", op |-> calls.op,
                     strike_method |-> calls.strike_method,
                     exit_strategy |-> calls.exit_strategy,
                     spot |-> calls.spot,
                     raised |-> run.raised,
                     strike |-> IF run.raised THEN <<>>
                                ELSE <<SelectStrike(run.config, calls.spot, 21,
                                                    run.config.default_iv, NoIndicators)>>]
    /\ UNCHANGED <<engineVars, filters, runs>>

InitRequests ==
    /\ InitNoRun
    /\ filters = Idle
    /\ runs = Idle
    /\ calls \in RequestCalls

NextRequests == DoRunRequest

SpecRequests == InitRequests /\ [][NextRequests]_vars

\* C15: a run requested with an unknown strike-method or exit-strategy value does
\* not fail; with an unknown strike method it selects the strike 2% out of the
\* money.
C15_UnknownFallsBack ==
    (calls.pc = "done" /\ calls.op = "run_backtest") =>
        /\ ~calls.raised
        /\ calls.strike_method \notin StrikeMethods =>
              calls.strike =
                 <<NearestStrike(GenerateStrikes(calls.spot, GetStrikeInterval(calls.spot)),
                                 102 * calls.spot, 100)>>

(***************************************************************************)
(* find_strike_by_delta on its own: a candidate list, the delta the        *)
(* pricing model gives each candidate (negative for puts), a target.       *)
(***************************************************************************)
\* candidate lists: empty, and one to three strikes
CandidateLists == {<<>>, <<9500>>, <<9500, 10000>>, <<9500, 10000, 10500>>}

\* deltas of calls, in 1/10000; a put's delta is the call's minus 1
CallDeltas == {1000, 3000, 5000}

DeltasOf(option_type) ==
    IF option_type = "PE" THEN {d - 10000 : d \in CallDeltas} ELSE CallDeltas

\* targets: for puts given with either sign
TargetsOf(option_type) ==
    IF option_type = "PE" THEN {-8000, 8000, 5000} ELSE {2000, 3000}

DeltaCalls ==
    UNION { { [pc |-> "ready", op |-> "find_strike_by_delta", option_type |-> o,
               available_strikes |-> c, deltas |-> d, target_delta |-> t] :
              d \in [1..Len(c) -> DeltasOf(o)], t \in TargetsOf(o) } :
            o \in {"CE", "PE"}, c \in CandidateLists }

\* one call of find_strike_by_delta; best_strike is <<>> for None
DoFindStrikeByDelta ==
    /\ calls.pc = "ready"
    /\ calls.op = "find_strike_by_delta"
    /\ calls' = [pc |-> "done", op |-> calls.op, option_type |-> calls.option_type,
                 available_strikes |-> calls.available_strikes,
                 deltas |-> calls.deltas, target_delta |-> calls.target_delta,
                 best_strike |-> DeltaScan(calls.available_strikes, calls.deltas,
                                           calls.target_delta, calls.option_type,
                                           1, <<>>, <<>>)]
    /\ UNCHANGED <<engineVars, filters, runs>>

InitDeltas ==
    /\ InitNoRun
    /\ filters = Idle
    /\ runs = Idle
    /\ calls \in DeltaCalls

NextDeltas == DoFindStrikeByDelta

SpecDeltas == InitDeltas /\ [][NextDeltas]_vars

\* distance of candidate k of the call from the target
Distance(k) ==
    IF calls.option_type = "PE"
    THEN Abs(Abs(calls.deltas[k]) - Abs(calls.target_delta))
    ELSE Abs(calls.deltas[k] - calls.target_delta)

\* C16: for a non-empty candidate list find_strike_by_delta returns the strike
\* whose delta is nearest to the target (absolute deltas for puts), and of several
\* nearest strikes the one that comes first in the list.
C16_FirstMinimumWins ==
    ( /\ calls.pc = "done"
      /\ calls.op = "find_strike_by_delta"
      /\ calls.available_strikes # <<>> ) =>
        \E i \in 1..Len(calls.available_strikes) :
            /\ calls.best_strike = <<calls.available_strikes[i]>>
            /\ \A j \in 1..Len(calls.available_strikes) : Distance(i) <= Distance(j)
            /\ \A j \in 1..(i - 1) : Distance(j) > Distance(i)

\* C16 witness: a put search in which the second and the third candidate are
\* equally near and nearer than the first; the second was returned
C16_Witness ==
    /\ calls.pc = "done"
    /\ calls.op = "find_strike_by_delta"
    /\ calls.option_type = "PE"
    /\ Len(calls.available_strikes) = 3
    /\ Distance(2) = Distance(3)
    /\ Distance(2) < Distance(1)
    /\ calls.deltas[2] # calls.deltas[3]
    /\ calls.best_strike = <<calls.available_strikes[2]>>

(***************************************************************************)
(* _calculate_pivot_points on its own: the table of a symbol is a sequence *)
(* of bars [date, high, low, close] in ascending date order.  The levels   *)
(* are kept as three times their value, so that the division by 3 of the   *)
(* pivot is exact.                                                         *)
(***************************************************************************)
\* dates of bars and of the entries the pivots are asked for
PivotDates == {3, 4, 5}

\* high, low and close of a bar
BarShapes ==
    { [high |-> 10200, low |-> 9900, close |-> 10000],
      [high |-> 10600, low |-> 10100, close |-> 10500] }

\* the tables: one to three bars with ascending dates
PivotTables ==
    UNION { { [i \in 1..n |-> [date |-> dates[i], high |-> shapes[i].high,
                               low |-> shapes[i].low, close |-> shapes[i].close]] :
              dates \in {d \in [1..n -> PivotDates] : \A i \in 1..(n - 1) : d[i] < d[i + 1]},
              shapes \in [1..n -> BarShapes] } :
            n \in 1..3 }

\* the standard formulas on one bar, times 3
PivotLevels(bar) ==
    LET pivot3 == bar.high + bar.low + bar.close
    IN  [pivot |-> pivot3,
         r1 |-> 2 * pivot3 - 3 * bar.low,
         r2 |-> pivot3 + 3 * (bar.high - bar.low),
         r3 |-> 3 * bar.high + 2 * (pivot3 - 3 * bar.low),
         s1 |-> 2 * pivot3 - 3 * bar.high,
         s2 |-> pivot3 - 3 * (bar.high - bar.low),
         s3 |-> 3 * bar.low - 2 * (3 * bar.high - pivot3)]

\* _calculate_pivot_points: <<>> for {}, else <<levels>>.  historical_data is the
\* last two bars dated at or before the date; prev_day is the first of them
\* when there are two, the only one when there is one.
CalculatePivotPoints(table, date) ==
    LET upto == SelectSeq(table, LAMBDA bar : bar.date <= date)
        historical_data == IF Len(upto) <= 2 THEN upto
                           ELSE SubSeq(upto, Len(upto) - 1, Len(upto))
    IN  IF Len(historical_data) < 1 THEN <<>>
        ELSE IF Len(historical_data) >= 2 THEN <<PivotLevels(historical_data[1])>>
        ELSE <<PivotLevels(historical_data[Len(historical_data)])>>

PivotCalls ==
    { [pc |-> "ready", op |-> "calculate_pivot_points", table |-> t, current_date |-> d] :
      t \in PivotTables, d \in PivotDates }

\* one call of _calculate_pivot_points
DoCalculatePivotPoints ==
    /\ calls.pc = "ready"
    /\ calls.op = "calculate_pivot_points"
    /\ calls' = [pc |-> "done", op |-> calls.op, table |-> calls.table,
                 current_date |-> calls.current_date,
                 pivots |-> CalculatePivotPoints(calls.table, calls.current_date)]
    /\ UNCHANGED <<engineVars, filters, runs>>

InitPivots ==
    /\ InitNoRun
    /\ filters = Idle
    /\ runs = Idle
    /\ calls \in PivotCalls

NextPivots == DoCalculatePivotPoints

SpecPivots == InitPivots /\ [][NextPivots]_vars

\* the bars of the table of the call dated strictly before its date
BarsBefore == SelectSeq(calls.table, LAMBDA bar : bar.date < calls.current_date)

\* C17: the pivot levels for date d are those of the last bar dated strictly before
\* d, never those of the bar of d itself, whatever the length of the history.
C17_PreviousCompletedBar ==
    ( /\ calls.pc = "done"
      /\ calls.op = "calculate_pivot_points"
      /\ calls.pivots # <<>> ) =>
        /\ BarsBefore # <<>>
        /\ calls.pivots = <<PivotLevels(BarsBefore[Len(BarsBefore)])>>

(***************************************************************************)
(* Two engine instances with different configurations over the same price  *)
(* tables.  Each instance is first run alone; then two fresh instances     *)
(* are run with their day steps interleaved in any order.  An instance     *)
(* keeps its state (positions, trades, cash, equity curve) in containers   *)
(* created by its __init__; the IV service is the module's singleton,      *)
(* created by the first get_iv_service() and shared by all instances.      *)
(***************************************************************************)
\* the two instances
Instances == {1, 2}

\* ContainerOf with one set of containers for all instances, as class attributes
\* would be
ContainerOf_Shared(i) == 1

\* the containers instance i reads and writes: its own
ContainerOf(i) == i

\* get_iv_service: the singleton, created when there is none (<<>>)
GetIvService(service) ==
    IF service = <<>> THEN <<[lookback_days |-> 252]>> ELSE service

\* CoveredCallEngine(config): fresh containers for the instance
Construct(store, i, cfg) ==
    [store EXCEPT ![ContainerOf(i)] = [engine |-> NewEngine(cfg), curve |-> <<>>]]

\* _process_day of instance i
StepInstance(store, i, cfg, date, day_prices) ==
    LET mine  == store[ContainerOf(i)]
        after == ProcessDay(mine.engine, cfg, date, day_prices)
    IN  [store EXCEPT ![ContainerOf(i)] =
            [engine |-> after, curve |-> Append(mine.curve, after.equity_curve)]]

\* the end of run_backtest of instance i: _close_all_positions
FinishInstance(store, i, end_date, day_prices) ==
    LET mine == store[ContainerOf(i)]
    IN  [store EXCEPT ![ContainerOf(i)] =
            [engine |-> CloseAllPositions(mine.engine, end_date, day_prices),
             curve |-> mine.curve]]

\* what a run returns: trades, final cash and equity curve
Outcome(container) ==
    [trades |-> container.engine.trades, cash |-> container.engine.cash,
     equity_curve |-> SortIndex(container.curve)]

\* pairs of different configurations
PairConfigs == {p \in RunConfigs \X RunConfigs : p[1] # p[2]}

NoContainer == [engine |-> NewEngine(BaseConfig), curve |-> <<>>]

\* left[i] is the number of trading dates instance i has still to process, then 0
\* when only the closing step is left and -1 when the run has returned
InitPair ==
    /\ InitNoRun
    /\ filters = Idle
    /\ calls = Idle
    /\ \E p \in PairConfigs, t \in Tables :
          runs = [pc |-> "alone", who |-> 1, configs |-> p, table |-> t,
                  dates |-> Sorted(<<3, 4, 11, 25>>),
                  iv_service |-> GetIvService(<<>>),
                  store |-> Construct([k \in Instances |-> NoContainer], 1, p[1]),
                  left |-> [k \in Instances |-> IF k = 1 THEN 4 ELSE -1],
                  alone |-> [k \in Instances |-> <<>>]]

\* the date instance i processes next
NextDate(i) == runs.dates[Len(runs.dates) + 1 - runs.left[i]]

\* a day step of an instance that is running
PairStep(i) ==
    /\ runs.pc \in {"alone", "pair"}
    /\ runs.left[i] > 0
    /\ runs' = [runs EXCEPT
                  !.left[i] = runs.left[i] - 1,
                  !.store = StepInstance(runs.store, i, runs.configs[i], NextDate(i),
                                         runs.table[NextDate(i)])]
    /\ UNCHANGED <<engineVars, filters, calls>>

\* the closing step of an instance that has processed all dates
PairFinish(i) ==
    /\ runs.pc \in {"alone", "pair"}
    /\ runs.left[i] = 0
    /\ LET end_date == runs.dates[Len(runs.dates)]
       IN  runs' = [runs EXCEPT
                      !.left[i] = -1,
                      !.store = FinishInstance(runs.store, i, end_date,
                                               runs.table[end_date])]
    /\ UNCHANGED <<engineVars, filters, calls>>

\* a run alone has returned: its outcome is kept; the other instance is then run
\* alone, and after it two fresh instances are constructed for the interleaved runs
NextPhase ==
    /\ runs.pc = "alone"
    /\ runs.left[runs.who] = -1
    /\ LET kept == [runs.alone EXCEPT
                       ![runs.who] = <<Outcome(runs.store[ContainerOf(runs.who)])>>]
           empty == [k \in Instances |-> NoContainer]
       IN  runs' = IF runs.who = 1
                   THEN [runs EXCEPT
                           !.who = 2, !.alone = kept,
                           !.iv_service = GetIvService(runs.iv_service),
                           !.store = Construct(empty, 2, runs.configs[2]),
                           !.left = [k \in Instances |-> IF k = 2 THEN 4 ELSE -1]]
                   ELSE [runs EXCEPT
                           !.pc = "pair", !.alone = kept,
                           !.iv_service = GetIvService(runs.iv_service),
                           !.store = Construct(Construct(empty, 1, runs.configs[1]),
                                               2, runs.configs[2]),
                           !.left = [k \in Instances |-> 4]]
    /\ UNCHANGED <<engineVars, filters, calls>>

NextPair == (\E i \in Instances : PairStep(i) \/ PairFinish(i)) \/ NextPhase

SpecPair == InitPair /\ [][NextPair]_vars

\* C18: two instances with different configurations over the same tables, their
\* day steps interleaved in any order, each return the trades, cash and equity
\* curve they return when run alone, and the shared IV service is never changed.
C18_RunsDoNotInterfere ==
    /\ runs.iv_service = <<[lookback_days |-> 252]>>
    /\ \A i \in Instances :
          (runs.pc = "pair" /\ runs.left[i] = -1) =>
              <<Outcome(runs.store[i])>> = runs.alone[i]

\* C18 witness: both interleaved runs have returned, and the two configurations
\* produced different ledgers of at least two trades each
C18_Witness ==
    /\ runs.pc = "pair"
    /\ \A i \in Instances : runs.left[i] = -1
    /\ runs.alone[1] # runs.alone[2]
    /\ Len(runs.alone[1][1].trades) >= 2
    /\ Len(runs.alone[2][1].trades) >= 2

(***************************************************************************)
(* The gate of step 2 of _process_day and the rule selection of            *)
(* _check_early_exits, under HOLD_TO_EXPIRY.                               *)
(***************************************************************************)
\* the condition under which step 2 of a day runs, written out
EarlyExitsEnabled ==
    \/ config.exit_strategy # "HOLD_TO_EXPIRY"
    \/ config.use_dte_exit
    \/ config.use_trailing_stop

\* exit reasons and roll-ups recorded so far, in the ledger and on open positions
ReasonsRecorded == {t.exit_reason.kind : t \in Ledger}

EverAdjusted ==
    \/ \E t \in Ledger : t.adjustments > 0
    \/ \E p \in OpenPositions : p.adjustments > 0 \/ p.adjusted

\* the same, after a step
ReasonsRecordedAfter == {trades'[i].exit_reason.kind : i \in 1..Len(trades')}

EverAdjustedAfter ==
    \/ \E i \in 1..Len(trades') : trades'[i].adjustments > 0
    \/ \E i \in 1..Len(positions') : positions'[i].adjustments > 0 \/ positions'[i].adjusted

\* an enabled advanced rule holds for the position
AdvancedRuleHolds(p) ==
    \/ config.use_dte_exit /\ DteExitHolds(p)
    \/ config.use_trailing_stop /\ TrailingStopHolds(p)

\* C19: step 2 of a day acts exactly when the exit strategy is not HOLD_TO_EXPIRY
\* or use_dte_exit or use_trailing_stop is enabled.  Under HOLD_TO_EXPIRY with both
\* disabled the step changes nothing, every exit reason is ASSIGNED, EXPIRY or
\* END_OF_BACKTEST and no position is ever adjusted; under HOLD_TO_EXPIRY with an
\* advanced exit enabled a position for which an enabled advanced rule holds is
\* closed that day, and no trade is ever recorded PROFIT_TARGET or STOP_LOSS and
\* no position adjusted.
C19_EarlyExitGate ==
    [][ /\ (pc = "exits" /\ ~EarlyExitsEnabled) =>
              /\ positions' = positions
              /\ trades' = trades
              /\ cash' = cash
        /\ (pc = "exits" /\ EarlyExitsEnabled /\ config.exit_strategy = "HOLD_TO_EXPIRY") =>
              \A p \in OpenPositions :
                  (Evaluated(p, current_date, prices) /\ AdvancedRuleHolds(p)) =>
                      \E t \in ClosedNow(p) :
                          /\ t.exit_date = current_date
                          /\ t.exit_reason.kind \in {"DTE_EXIT", "TRAILING_STOP"}
        /\ (config.exit_strategy = "HOLD_TO_EXPIRY" /\ ~EarlyExitsEnabled) =>
              /\ ReasonsRecordedAfter \subseteq {"ASSIGNED", "EXPIRY", "END_OF_BACKTEST"}
              /\ ~EverAdjustedAfter
        /\ config.exit_strategy = "HOLD_TO_EXPIRY" =>
              /\ ReasonsRecordedAfter \cap {"PROFIT_TARGET", "STOP_LOSS"} = {}
              /\ ~EverAdjustedAfter ]_vars

\* C19 witness: under HOLD_TO_EXPIRY with an advanced exit enabled, the early-exit
\* step is about to look at a position for which the profit-target condition holds
\* and no enabled advanced rule does, after an advanced exit has already closed one
C19_Witness ==
    /\ pc = "exits"
    /\ config.exit_strategy = "HOLD_TO_EXPIRY"
    /\ EarlyExitsEnabled
    /\ ReasonsRecorded \cap {"DTE_EXIT", "TRAILING_STOP"} # {}
    /\ \E p \in OpenPositions :
          /\ Evaluated(p, current_date, prices)
          /\ ProfitTargetHolds(p)
          /\ ~AdvancedRuleHolds(p)

\* C19 witness of the pure hold: both advanced exits disabled, the step is about
\* to pass over a position for which the stop-loss condition holds
C19_WitnessHold ==
    /\ pc = "exits"
    /\ config.exit_strategy = "HOLD_TO_EXPIRY"
    /\ ~EarlyExitsEnabled
    /\ \E p \in OpenPositions :
          Evaluated(p, current_date, prices) /\ StopLossHolds(p)

(***************************************************************************)
(* The monthly cycle: entry days and expiry dates.                         *)
(***************************************************************************)
\* the positions and trades after a step, as one set of records
BookAfter ==
    {positions'[i] : i \in 1..Len(positions')} \cup {trades'[i] : i \in 1..Len(trades')}

\* a Thursday with no later Thursday in its month
IsLastThursday(d) == Weekday(d) = 3 /\ Month(d + 7) # Month(d)

\* C20: every position is opened on a date whose day of month is at most 5, its
\* expiry is the last Thursday of a month and lies at least 7 calendar days after
\* the entry date; an entry step on a date with fewer than 7 days to the monthly
\* expiry opens nothing and leaves the cash alone.
C20_MonthlyCycle ==
    [][ /\ \A r \in BookAfter :
              /\ DayOfMonth(r.entry_date) <= 5
              /\ IsLastThursday(r.expiry_date)
              /\ r.expiry_date - r.entry_date >= 7
        /\ (pc = "entries" /\ GetMonthlyExpiry(current_date) - current_date < 7) =>
              /\ positions' = positions
              /\ cash' = cash ]_vars

\* C20 witness: the entry step has opened a position on the first trading date of
\* February, expiring on the last Thursday of February, after a January position
\* was closed
C20_Witness ==
    /\ pc = "equity"
    /\ Month(current_date) = 2
    /\ \E p \in OpenPositions :
          /\ p.entry_date = current_date
          /\ p.expiry_date = 60
    /\ \E t \in Ledger : Month(t.entry_date) = 1 /\ t.expiry_date = 25

(***************************************************************************)
(* One run of run_backtest with _check_early_exits taken call by call:     *)
(* the pass over the positions, then one _adjust_position per entry of     *)
(* symbols_to_adjust, then one _close_position per entry of                *)
(* symbols_to_close.  The two queues are kept in runs.                     *)
(***************************************************************************)
\* exit policies that check the stop loss
StepConfigs == {c \in Configs : CheckStopLoss(c)}

InitSteps == InitEngine(StepConfigs)

\* where _check_early_exits goes on with the queues that are left
AfterQueues(symbols_to_adjust, symbols_to_close) ==
    IF symbols_to_adjust # <<>> THEN "adjust"
    ELSE IF symbols_to_close # <<>> THEN "close"
    ELSE "entries"

\* _process_day step 2, up to the end of the loop over the positions
ScanExits ==
    /\ pc = "exits"
    /\ LET scan == ScanPositions(Engine, config, current_date, prices)
       IN  IF RunsEarlyExits(config)
           THEN /\ positions' = scan.positions
                /\ runs' = [pc |-> "queues",
                            symbols_to_adjust |-> scan.symbols_to_adjust,
                            symbols_to_close |-> scan.symbols_to_close]
                /\ pc' = AfterQueues(scan.symbols_to_adjust, scan.symbols_to_close)
           ELSE /\ positions' = positions
                /\ runs' = [pc |-> "queues", symbols_to_adjust |-> <<>>,
                            symbols_to_close |-> <<>>]
                /\ pc' = "entries"
    /\ UNCHANGED <<config, current_date, day_count, prices, trades, cash,
                   equity_curve, opened, filters, calls>>

\* one call of _adjust_position
DoAdjustPosition ==
    /\ pc = "adjust"
    /\ Becomes(AdjustPosition(Engine, Head(runs.symbols_to_adjust), current_date))
    /\ runs' = [runs EXCEPT !.symbols_to_adjust = Tail(runs.symbols_to_adjust)]
    /\ pc' = AfterQueues(Tail(runs.symbols_to_adjust), runs.symbols_to_close)
    /\ UNCHANGED <<config, current_date, day_count, prices, filters, calls>>

\* one call of _close_position from the queue
DoClosePosition ==
    /\ pc = "close"
    /\ LET q == Head(runs.symbols_to_close)
       IN  Becomes(ClosePosition(Engine, q.symbol, current_date, q.stock_price,
                                 q.option_price, q.reason))
    /\ runs' = [runs EXCEPT !.symbols_to_close = Tail(runs.symbols_to_close)]
    /\ pc' = AfterQueues(<<>>, Tail(runs.symbols_to_close))
    /\ UNCHANGED <<config, current_date, day_count, prices, filters, calls>>

NextSteps ==
    \/ NextDay
    \/ DoCheckExpiries
    \/ ScanExits
    \/ DoAdjustPosition
    \/ DoClosePosition
    \/ DoCheckNewEntries
    \/ DoUpdateEquity
    \/ Finish

SpecSteps == InitSteps /\ [][NextSteps]_vars

\* the symbol the next call of _adjust_position is for
AdjustedSymbol == Head(runs.symbols_to_adjust).symbol

\* the position of a symbol before and after a step
Before(symbol) == CHOOSE p \in OpenPositions : p.symbol = symbol

After(symbol) ==
    CHOOSE q \in {positions'[i] : i \in 1..Len(positions')} : q.symbol = symbol

\* C21: a call of _adjust_position leaves the adjusted position's symbol, lot_size,
\* entry_date, stock_entry_price, expiry_date, iv_at_entry and trailing-stop state
\* as they were, leaves every other position and the trade ledger unchanged, keeps
\* the positions in place, and moves the cash by the new premium less the buy-back
\* price, per share, times the lot size.
C21_AdjustmentFrame ==
    [][ pc = "adjust" =>
          /\ trades' = trades
          /\ Len(positions') = Len(positions)
          /\ \A i \in 1..Len(positions) :
                /\ positions'[i].symbol = positions[i].symbol
                /\ positions[i].symbol # AdjustedSymbol => positions'[i] = positions[i]
          /\ LET p == Before(AdjustedSymbol)
                 q == After(AdjustedSymbol)
             IN  /\ q.lot_size = p.lot_size
                 /\ q.entry_date = p.entry_date
                 /\ q.stock_entry_price = p.stock_entry_price
                 /\ q.expiry_date = p.expiry_date
                 /\ q.iv_at_entry = p.iv_at_entry
                 /\ q.profit_high_water_mark = p.profit_high_water_mark
                 /\ q.trailing_stop_active = p.trailing_stop_active
                 /\ q.id = p.id
                 /\ q.adjusted
                 /\ q.adjustment_date = current_date
                 /\ cash' - cash =
                       (q.premium_received - Head(runs.symbols_to_adjust).option_price)
                           * p.lot_size ]_vars

\* C21 witness: a position has just been rolled up while the other symbol's
\* position stays open and the ledger already holds a trade, with the trailing
\* stop enabled and a high-water mark recorded on the adjusted position
C21_Witness ==
    /\ pc \in {"close", "entries"}
    /\ config.use_trailing_stop
    /\ Len(positions) = 2
    /\ trades # <<>>
    /\ \E p \in OpenPositions :
          /\ p.adjustment_date = current_date
          /\ p.adjusted
          /\ p.strike_price # 0
          /\ p.profit_high_water_mark > 0

(***************************************************************************)
(* A roll-up seen at the resolution of the option prices.  A position is   *)
(* opened 22 days before expiry at the default volatility 0.20 and looked  *)
(* at by _check_early_exits on a later date.  Spots and strikes are in     *)
(* paise as elsewhere; option prices, which for far out-of-the-money       *)
(* strikes are far below one paisa, are in millionths of a rupee.          *)
(***************************************************************************)
\* millionths of a rupee in a paisa
Micro == 10000

\* spots of the roll-up scenarios (100, 102, 105 rupees)
RollSpots == <<10000, 10200, 10500>>

\* strikes of the ladders of these spots (90 .. 125 rupees)
RollStrikes == [i \in 1..8 |-> 9000 + (i - 1) * 500]

\* days to expiry: at entry, and on the dates of the later look
RollDtes == <<22, 21, 14, 7>>

\* calculate_option_price(spot, strike, dte / 365, 0.20, 'CE'), risk-free rate 0.07,
\* in millionths of a rupee: FinePriceTable[spot][strike][dte]
FinePriceTable ==
    <<
       <<<<10399670, 10379353, 10244564, 10120777>>,
         <<5708302, 5669730, 5401400, 5157236>>,
         <<2172271, 2117490, 1698171, 1172549>>,
         <<497048, 463444, 235627, 50231>>,
         <<63760, 55091, 12404, 259>>,
         <<4563, 3538, 246, 0>>,
         <<188, 127, 2, 0>>,
         <<5, 3, 0, 0>>>>,
       <<<<12385069, 12366711, 12241866, 12120742>>,
         <<7530743, 7500442, 7299130, 7131246>>,
         <<3416234, 3363053, 2962918, 2492357>>,
         <<995910, 949198, 606761, 239489>>,
         <<169559, 152004, 50886, 3342>>,
         <<16409, 13412, 1653, 6>>,
         <<918, 664, 22, 0>>,
         <<31, 19, 0, 0>>>>,
       <<<<15379729, 15362335, 15241346, 15120741>>,
         <<10429569, 10407252, 10260028, 10127533>>,
         <<5779618, 5737841, 5445172, 5173630>>,
         <<2280885, 2223365, 1783080, 1231176>>,
         <<567122, 530271, 277702, 64213>>,
         <<83505, 72779, 17992, 493>>,
         <<7230, 5704, 479, 1>>,
         <<377, 262, 5, 0>>>>
    >>

IndexIn(seq, x) == CHOOSE i \in 1..Len(seq) : seq[i] = x

FinePrice(spot, strike, dte) ==
    FinePriceTable[IndexIn(RollSpots, spot)][IndexIn(RollStrikes, strike)][IndexIn(RollDtes, dte)]

\* strike methods of the scenarios: those that do not price the candidates
RollMethods == {"OTM_2PCT", "OTM_5PCT", "ATM", "PIVOT_R1", "PIVOT_R2", "BOLLINGER_UPPER"}

RollConfig(method) ==
    [BaseConfig EXCEPT !.strike_method = method, !.exit_strategy = "STOP_LOSS",
                       !.allow_sl_adjustment = TRUE]

RollCalls ==
    UNION { { [pc |-> "new", op |-> "roll", method |-> m, ind |-> i, spot |-> s] :
              i \in IndicatorSnapshots(m), s \in SeqToSet(RollSpots) } :
            m \in RollMethods }

\* _open_position, 22 days before expiry: the strike sold and the premium received
RollOpen ==
    /\ calls.pc = "new"
    /\ calls.op = "roll"
    /\ LET strike == SelectStrike(RollConfig(calls.method), calls.spot, RollDtes[1],
                                  BaseConfig.default_iv, calls.ind)
       IN  calls' = [pc |-> "held", op |-> "roll", method |-> calls.method,
                     strike_price |-> strike,
                     premium_received |-> FinePrice(calls.spot, strike, RollDtes[1])]
    /\ UNCHANGED <<engineVars, filters, runs>>

\* the ladder _adjust_position generates for a spot
LadderOf(stock_price) == GenerateStrikes(stock_price, GetStrikeInterval(stock_price))

\* _check_early_exits on a later date for the position, and _adjust_position when
\* the stop loss is hit: the strike the roll-up sells
RollLook ==
    /\ calls.pc = "held"
    /\ \E stock_price \in SeqToSet(RollSpots), dte \in SeqToSet(Tail(RollDtes)) :
          LET current_option_price == FinePrice(stock_price, calls.strike_price, dte)
              option_pnl   == calls.premium_received - current_option_price
              stop_hit     == option_pnl * 100
                                <= -(BaseConfig.stop_loss_multiple * calls.premium_received)
              premium_lost == Abs(option_pnl)
              strikes      == LadderOf(stock_price)
              fine         == [i \in 1..Len(strikes) |-> strikes[i] * Micro]
              new_strike   == RollStrike(fine, calls.strike_price * Micro + premium_lost)
                                \div Micro
          IN  calls' = [pc |-> IF stop_hit THEN "rolled" ELSE "kept", op |-> "roll",
                        method |-> calls.method,
                        stock_price |-> stock_price,
                        old_strike |-> calls.strike_price,
                        premium_lost |-> premium_lost,
                        strike_price |-> IF stop_hit THEN new_strike
                                         ELSE calls.strike_price]
    /\ UNCHANGED <<engineVars, filters, runs>>

InitRolls ==
    /\ InitNoRun
    /\ filters = Idle
    /\ runs = Idle
    /\ calls \in RollCalls

NextRolls == RollOpen \/ RollLook

SpecRolls == InitRolls /\ [][NextRolls]_vars

\* the ladder strikes at or above the old strike plus the premium lost per share
Qualifying ==
    {s \in SeqToSet(LadderOf(calls.stock_price)) :
        s * Micro >= calls.old_strike * Micro + calls.premium_lost}

\* C22: a roll-up sells the lowest ladder strike at or above the old strike plus
\* the premium lost per share, or the maximum of the ladder of the current spot
\* when no ladder strike qualifies, and the new strike is strictly greater than
\* the strike before the adjustment.
C22_RollsToHigherStrike ==
    calls.pc = "rolled" =>
        /\ Qualifying # {} =>
              /\ calls.strike_price \in Qualifying
              /\ \A s \in Qualifying : calls.strike_price <= s
        /\ Qualifying = {} => calls.strike_price = SeqMax(LadderOf(calls.stock_price))
        /\ calls.strike_price > calls.old_strike

\* the choice among the ladder strikes alone, without the comparison with the
\* strike before the adjustment
C22_LadderChoice ==
    calls.pc = "rolled" =>
        /\ Qualifying # {} =>
              /\ calls.strike_price \in Qualifying
              /\ \A s \in Qualifying : calls.strike_price <= s
        /\ Qualifying = {} => calls.strike_price = SeqMax(LadderOf(calls.stock_price))

(***************************************************************************)
(* The trailing stop over the life of a position.                          *)
(***************************************************************************)
\* the profit percentage _check_early_exits computes for a position, basis points
ProfitNow(p) ==
    IF p.premium_received > 0
    THEN ((p.premium_received - OptionNow(p)) * 10000) \div p.premium_received
    ELSE 0

\* the high-water mark and the activation state once the day's profit is known
MarkNow(p) ==
    IF ProfitNow(p) > p.profit_high_water_mark THEN ProfitNow(p)
    ELSE p.profit_high_water_mark

ActiveNow(p) == p.trailing_stop_active \/ ProfitNow(p) >= config.trailing_stop_activation

\* the retracement from the mark has reached the configured distance
Retraced(p) == MarkNow(p) - ProfitNow(p) >= config.trailing_stop_distance

\* the positions _check_early_exits evaluates on the current date
EvaluatedToday == {p \in OpenPositions : prices[p.symbol] # <<>> /\ Dte(p) > 0}

\* the DTE exit closes the position before the trailing stop is looked at
DteExitFirst(p) == config.use_dte_exit /\ Dte(p) <= config.dte_exit_threshold

\* the step closes the position with a TRAILING_STOP reason
TrailClosed(p) == \E t \in ClosedNow(p) : t.exit_reason.kind = "TRAILING_STOP"

\* over every step: the mark of a position never decreases and an active trail
\* stays active
TrailMonotone ==
    \A p \in OpenPositions : \A q \in StillOpen(p) :
        /\ q.profit_high_water_mark >= p.profit_high_water_mark
        /\ p.trailing_stop_active => q.trailing_stop_active

\* C23 as stated: with the trailing stop enabled the mark never decreases, an
\* active trail stays active, the trail becomes active on the first evaluated day
\* on which the profit reaches the activation threshold, and a TRAILING_STOP close
\* occurs only while the trail is active and exactly when the mark minus the
\* current profit is at least trailing_stop_distance.
C23_Original ==
    [][ config.use_trailing_stop =>
          /\ TrailMonotone
          /\ pc = "exits" =>
                \A p \in EvaluatedToday :
                    /\ TrailClosed(p) <=> (ActiveNow(p) /\ Retraced(p))
                    /\ \A q \in StillOpen(p) :
                          /\ q.trailing_stop_active = ActiveNow(p)
                          /\ q.profit_high_water_mark = MarkNow(p) ]_vars

\* C23: with the trailing stop enabled the mark never decreases and an active
\* trail stays active; on a day on which the DTE exit does not close the position
\* first, the trail becomes active as soon as the profit reaches the activation
\* threshold and the position is closed TRAILING_STOP exactly when the trail is
\* active and the mark minus the current profit is at least
\* trailing_stop_distance; on a day on which the DTE exit closes the position the
\* trailing stop is not looked at.
C23_TrailingStop ==
    [][ config.use_trailing_stop =>
          /\ TrailMonotone
          /\ pc = "exits" =>
                \A p \in EvaluatedToday :
                    IF DteExitFirst(p)
                    THEN /\ ~TrailClosed(p)
                         /\ \E t \in ClosedNow(p) : t.exit_reason.kind = "DTE_EXIT"
                    ELSE /\ TrailClosed(p) <=> (ActiveNow(p) /\ Retraced(p))
                         /\ \A q \in StillOpen(p) :
                               /\ q.trailing_stop_active = ActiveNow(p)
                               /\ q.profit_high_water_mark = MarkNow(p) ]_vars

\* C23 witness: a trailing stop has closed a position whose mark had been set on
\* an earlier day, while another position with an active trail stays open
C23_Witness ==
    /\ pc = "entries"
    /\ config.use_trailing_stop
    /\ \E t \in Ledger :
          /\ t.exit_reason.kind = "TRAILING_STOP"
          /\ t.exit_date = current_date
          /\ t.exit_date > t.entry_date + 1
    /\ \E p \in OpenPositions :
          p.trailing_stop_active /\ p.profit_high_water_mark > 0

(***************************************************************************)
(* Entries within one calendar month.                                      *)
(***************************************************************************)
\* the symbols without an open position that have a price on the current date
Enterable == {s \in Symbols : prices[s] # <<>> /\ \A p \in OpenPositions : p.symbol # s}

RECURSIVE SumOver(_, _)
SumOver(set, f) ==
    IF set = {} THEN 0
    ELSE LET x == CHOOSE y \in set : TRUE IN f[x] + SumOver(set \ {x}, f)

\* the capital the entries of the day require together
RequiredCapital ==
    SumOver(Enterable,
            [s \in Symbols |-> IF prices[s] = <<>> THEN 0
                               ELSE prices[s][1] * config.position_size])

\* the symbol has a trade in the ledger that was entered in the month of the
\* current date
EnteredThisMonth(s) ==
    \E t \in Ledger : t.symbol = s /\ Month(t.entry_date) = Month(current_date)

GetPrice_Backfill(rows, date) ==
    LET after == SelectSeq(rows, LAMBDA r : r.date >= date)
    IN  IF rows = <<>> THEN <<>>
        ELSE IF after # <<>> THEN <<after[1].close>>
        ELSE <<rows[Len(rows)].close>>

\* _get_price: the close of the row dated date, else of the last row dated before
\* it, else None
GetPrice(rows, date) ==
    LET exact  == SelectSeq(rows, LAMBDA r : r.date = date)
        before == SelectSeq(rows, LAMBDA r : r.date <= date)
    IN  IF exact # <<>> THEN <<exact[1].close>>
        ELSE IF before = <<>> THEN <<>>
        ELSE <<before[Len(before)].close>>

\* the trading dates of the two runs
LookDates == <<3, 4, 11, 25>>

\* the tables of one run
LookTables ==
    { [A |-> [i \in 1..4 |-> [date |-> LookDates[i], close |-> a[i]]],
       B |-> <<[date |-> 3, close |-> 10000], [date |-> 11, close |-> b]>>] :
         a \in {f \in [1..4 -> PriceSet] : f[1] = 10000}, b \in {9500, 10500} }

\* two tables agree on every row dated at or before d
AgreeUpTo(t1, t2, d) ==
    \A s \in Symbols :
        /\ Len(t1[s]) = Len(t2[s])
        /\ \A i \in 1..Len(t1[s]) :
              /\ t1[s][i].date = t2[s][i].date
              /\ t1[s][i].date <= d => t1[s][i] = t2[s][i]

\* what _get_price returns for each symbol on a date
PricesOn(table, date) == [s \in Symbols |-> GetPrice(table[s], date)]

\* a second set of tables: the rows dated after the n-th trading date replaced
SecondTables(t1, n) ==
    { [A |-> [i \in 1..4 |-> IF i <= n THEN t1.A[i]
                              ELSE [date |-> LookDates[i], close |-> a[i]]],
       B |-> IF LookDates[n] >= 11 THEN t1.B
             ELSE <<t1.B[1], [date |-> 11, close |-> b]>>] :
         a \in {f \in [1..4 -> PriceSet] : \A i \in 1..n : f[i] = t1.A[i].close},
         b \in {9500, 10500} }

InitLook ==
    /\ InitNoRun
    /\ filters = Idle
    /\ calls = Idle
    /\ \E c \in RunConfigs, t1 \in LookTables, n \in 1..3 :
          \E t2 \in SecondTables(t1, n) :
              /\ AgreeUpTo(t1, t2, LookDates[n])
              /\ t1 # t2
              /\ runs = [pc |-> "look", cfg |-> c, tables |-> <<t1, t2>>,
                         cut |-> LookDates[n], done |-> 0,
                         engines |-> <<NewEngine(c), NewEngine(c)>>,
                         curves |-> <<<<>>, <<>>>>]

\* both runs process their next trading date
LookDay ==
    /\ runs.pc = "look"
    /\ runs.done < Len(LookDates)
    /\ LET date == LookDates[runs.done + 1]
           after == [i \in 1..2 |->
                        ProcessDay(runs.engines[i], runs.cfg, date,
                                   PricesOn(runs.tables[i], date))]
       IN  runs' = [runs EXCEPT
                      !.done = runs.done + 1,
                      !.engines = after,
                      !.curves = [i \in 1..2 |->
                                     Append(runs.curves[i], after[i].equity_curve)]]
    /\ UNCHANGED <<engineVars, filters, calls>>

\* both runs close what is open at the end date
LookFinish ==
    /\ runs.pc = "look"
    /\ runs.done = Len(LookDates)
    /\ LET end_date == LookDates[Len(LookDates)]
       IN  runs' = [runs EXCEPT
                      !.pc = "done",
                      !.engines = [i \in 1..2 |->
                                      CloseAllPositions(runs.engines[i], end_date,
                                                        PricesOn(runs.tables[i], end_date))]]
    /\ UNCHANGED <<engineVars, filters, calls>>

NextLook == LookDay \/ LookFinish

SpecLook == InitLook /\ [][NextLook]_vars

\* the date the two runs have processed last
LastProcessed == IF runs.done = 0 THEN 0 ELSE LookDates[runs.done]

RECURSIVE TotalPnl(_)
TotalPnl(ledger) ==
    IF ledger = <<>> THEN 0 ELSE Head(ledger).total_pnl + TotalPnl(Tail(ledger))

\* C26: after run_backtest has closed every position, final cash minus
\* initial_capital equals the sum of total_pnl over the trades of the ledger, also
\* in a run in which a position was adjusted before it closed.
C26_CashEqualsLedgerPnl ==
    pc = "done" => cash - config.initial_capital = TotalPnl(trades)

\* the same for the runs in which no position was adjusted
C26_WithoutAdjustment ==
    (pc = "done" /\ \A t \in Ledger : t.adjustments = 0) =>
        cash - config.initial_capital = TotalPnl(trades)

(***************************************************************************)
(* Runs whose capital covers the stock of one position and little more.    *)
(***************************************************************************)
\* stop-loss policies, with and without the roll-up, on a capital of 100 or 200
\* rupees
TightConfigs ==
    { [BaseConfig EXCEPT !.exit_strategy = "STOP_LOSS", !.allow_sl_adjustment = a,
                         !.initial_capital = k] :
        a \in BOOLEAN, k \in {10000, 20000} }

InitTight == InitEngine(TightConfigs)

SpecTight == InitTight /\ [][Next]_vars

\* C27: with initial_capital >= 0 the cash is never negative at any point of a
\* run: not after an entry, not after a close and not after a roll-up adjustment.
C27_CashNeverNegative == config.initial_capital >= 0 => cash >= 0

\* the same for the runs that never roll a position up
C27_WithoutAdjustment ==
    (config.initial_capital >= 0 /\ ~config.allow_sl_adjustment) => cash >= 0

(***************************************************************************)
(* The force-close at the end of a run and the last equity value.          *)
(***************************************************************************)
\* the trades of the force-close
ForceClosed == {t \in Ledger : t.exit_reason.kind = "END_OF_BACKTEST"}

\* C28: the END_OF_BACKTEST force-close does not change the portfolio value: the
\* cash after it equals the last value of the equity curve, also when
\* config.end_date is later than the last trading date.
C28_ForceCloseKeepsValue ==
    (pc = "done" /\ day_count > 0) => cash = equity_curve.value

\* the same for the runs whose end date is their last trading date
C28_EndOnTradingDate ==
    (pc = "done" /\ day_count > 0 /\ \A t \in ForceClosed : t.exit_date = current_date)
        => cash = equity_curve.value

(***************************************************************************)
(* The day on which the trail of a position becomes active.                *)
(***************************************************************************)
\* the trail of the position becomes active in today's pass
ActivatesToday(p) ==
    /\ ~p.trailing_stop_active
    /\ ~DteExitFirst(p)
    /\ ProfitNow(p) >= config.trailing_stop_activation

\* C29: with trailing_stop_activation > 0 and trailing_stop_distance > 0, a
\* position whose trail was not active before the day's pass is not closed by the
\* trailing stop in that pass: on the day the trail becomes active the mark
\* equals the day's profit.
C29_NoCloseOnActivationDay ==
    [][ ( /\ pc = "exits"
          /\ config.use_trailing_stop
          /\ config.trailing_stop_activation > 0
          /\ config.trailing_stop_distance > 0 ) =>
            \A p \in EvaluatedToday :
                ~p.trailing_stop_active =>
                    /\ ~TrailClosed(p)
                    /\ ActivatesToday(p) =>
                          \A q \in StillOpen(p) :
                              /\ q.trailing_stop_active
                              /\ q.profit_high_water_mark = ProfitNow(p) ]_vars

\* C29 witness: the pass has just made the trail of a position active, the mark
\* is the day's profit and the position is still open
C29_Witness ==
    /\ pc = "entries"
    /\ config.use_trailing_stop
    /\ \E p \in OpenPositions :
          /\ prices[p.symbol] # <<>>
          /\ p.entry_date < current_date
          /\ p.trailing_stop_active
          /\ p.profit_high_water_mark = ProfitNow(p)
          /\ p.profit_high_water_mark >= config.trailing_stop_activation

(***************************************************************************)
(* _calculate_adx on its own, with period 2 (config.adx_period), on the    *)
(* 14 rows _check_adx_filter requires for that period.  Prices are whole   *)
(* rupees.  The smoothed sums are kept in units of 1/8192, in which every  *)
(* division by the period over 14 rows is exact; DX and ADX are in units   *)
(* of 1/256, DX rounded down.  NaN is <<>>, a number x is <<x>>.           *)
(***************************************************************************)
AdxPeriod == 2

AdxRows == 14

Fine == 8192

\* OHLC series: the first bar is 100..102 closing at 101, every later bar is the
\* bar before it moved by the direction of its phase; a series has up to three
\* phases of constant direction
Directions == {-2, -1, 0, 1, 2}

AdxSeries ==
    { [i \in 1..(AdxRows - 1) |-> IF i <= a THEN d[1] ELSE IF i <= b THEN d[2] ELSE d[3]] :
        d \in [1..3 -> Directions], a \in {2, 5, 13}, b \in {5, 9, 13} }

RECURSIVE Level(_, _)
Level(moves, i) == IF i = 1 THEN 0 ELSE Level(moves, i - 1) + moves[i - 1]

BarsOf(moves) ==
    [i \in 1..AdxRows |-> [high  |-> 102 + Level(moves, i),
                           low   |-> 100 + Level(moves, i),
                           close |-> 101 + Level(moves, i)]]

Max3(a, b, c) == Max2(a, Max2(b, c))

\* true_range: the maximum of the three ranges, those against the previous close
\* being NaN on the first row
TrueRange(bars, i) ==
    IF i = 1 THEN bars[1].high - bars[1].low
    ELSE Max3(bars[i].high - bars[i].low,
              Abs(bars[i].high - bars[i - 1].close),
              Abs(bars[i].low - bars[i - 1].close))

\* plus_dm and minus_dm
PlusDM(bars, i) ==
    IF i = 1 THEN 0
    ELSE LET dh == bars[i].high - bars[i - 1].high
             dl == bars[i - 1].low - bars[i].low
         IN  IF dh > dl /\ dh > 0 THEN dh ELSE 0

MinusDM(bars, i) ==
    IF i = 1 THEN 0
    ELSE LET dh == bars[i].high - bars[i - 1].high
             dl == bars[i - 1].low - bars[i].low
         IN  IF dl > dh /\ dl > 0 THEN dl ELSE 0

RECURSIVE SumFirst(_, _)
SumFirst(series, n) == IF n = 0 THEN 0 ELSE SumFirst(series, n - 1) + series[n]

\* WilderSmooth that starts from the mean of the first n values and moves by
\* (current - previous) / n
RECURSIVE WilderSmooth_Mean(_, _, _)
WilderSmooth_Mean(series, n, i) ==
    IF i < n THEN <<>>
    ELSE IF i = n THEN <<SumFirst(series, n) \div n>>
    ELSE LET prev == WilderSmooth_Mean(series, n, i - 1)[1]
         IN  <<prev + (series[i] - prev) \div n>>

\* wilder_smooth: NaN before row n, the sum of the first n values on row n, then
\* previous - previous / n + current
RECURSIVE WilderSmooth(_, _, _)
WilderSmooth(series, n, i) ==
    IF i < n THEN <<>>
    ELSE IF i = n THEN <<SumFirst(series, n)>>
    ELSE LET prev == WilderSmooth(series, n, i - 1)[1]
         IN  <<prev - prev \div n + series[i]>>

\* dx.fillna(0), in 1/256: 100 * |+DI - -DI| / (+DI + -DI), where
\* +DI = 100 * smoothed +DM / smoothed TR and -DI likewise; NaN where a smoothed
\* value is NaN, the smoothed TR is 0 or the sum of the two is 0
DxFilled(bars, i) ==
    LET tr    == [k \in 1..AdxRows |-> TrueRange(bars, k) * Fine]
        plus  == [k \in 1..AdxRows |-> PlusDM(bars, k) * Fine]
        minus == [k \in 1..AdxRows |-> MinusDM(bars, k) * Fine]
        s_tr    == WilderSmooth(tr, AdxPeriod, i)
        s_plus  == WilderSmooth(plus, AdxPeriod, i)
        s_minus == WilderSmooth(minus, AdxPeriod, i)
    IN  IF s_tr = <<>> \/ s_tr = <<0>> THEN 0
        ELSE IF s_plus[1] + s_minus[1] = 0 THEN 0
        ELSE (25600 * Abs(s_plus[1] - s_minus[1])) \div (s_plus[1] + s_minus[1])

\* _calculate_adx: the adx series
CalculateAdx(bars) ==
    LET dx == [k \in 1..AdxRows |-> DxFilled(bars, k)]
    IN  [i \in 1..AdxRows |-> WilderSmooth(dx, AdxPeriod, i)]

AdxCalls == { [pc |-> "ready", op |-> "calculate_adx", moves |-> m] : m \in AdxSeries }

DoCalculateAdx ==
    /\ calls.pc = "ready"
    /\ calls.op = "calculate_adx"
    /\ calls' = [pc |-> "done", op |-> calls.op, moves |-> calls.moves,
                 adx |-> CalculateAdx(BarsOf(calls.moves))]
    /\ UNCHANGED <<engineVars, filters, runs>>

InitAdx ==
    /\ InitNoRun
    /\ filters = Idle
    /\ runs = Idle
    /\ calls \in AdxCalls

NextAdx == DoCalculateAdx

SpecAdx == InitAdx /\ [][NextAdx]_vars

\* C30: every non-NaN value of the ADX series _calculate_adx returns lies in
\* 0..100.
C30_AdxInRange ==
    (calls.pc = "done" /\ calls.op = "calculate_adx") =>
        \A i \in 1..AdxRows :
            calls.adx[i] # <<>> => (0 <= calls.adx[i][1] /\ calls.adx[i][1] <= 100 * 256)

=============================================================================
